---- MODULE Spec2Model ----
(***************************************************************************)
(* Beam reinforcement detailing: bar segmentation (top and bottom          *)
(* strategies), splice coordination between top and bottom bars, the       *)
(* drawing lane assignment, the rebuilding of splices from geometry, the   *)
(* lap lengths and lap locations of the despiece engine, and the hooks of  *)
(* the drawing.                                                            *)
(*                                                                         *)
(* Lengths and coordinates of the detailing service are metres held as     *)
(* floats; here they are integers counting micrometres (1e-6 m), so the    *)
(* 1e-6 end test of the loops is 1 and the 1e-3 tolerance is 1000.  The    *)
(* inputs are whole millimetres, for which every product and quotient      *)
(* below is exact, and they are placed so that no comparison of the code   *)
(* is an exact tie, where the rounding of the floats would decide.         *)
(***************************************************************************)
EXTENDS Integers, Sequences, FiniteSets, TLC

VARIABLES
    inp,             \* arguments of the running _split_bar_by_max_length call
    pc,              \* position of the running operation
    segments,        \* segmentation loop: the pieces built so far
    joints,          \* segmentation loop: the splice records built so far
    current_start,   \* segmentation loop
    piece_index,     \* segmentation loop
    safety_counter,  \* segmentation loop
    adjust_attempts, \* attempts used by the last _adjust_segment_end_for_splice_zones
    warnings,        \* logger.warning records of the running call
    result,          \* the list returned by the call
    co,              \* _coordinate_splice_positions: its arguments, heap and cursor
    dr,              \* _draw_group: the prepared groups and what was drawn
    fn               \* a call of a stand-alone function: its arguments and its return

vars == <<inp, pc, segments, joints, current_start, piece_index, safety_counter,
          adjust_attempts, warnings, result, co, dr, fn>>

segVars == <<inp, segments, joints, current_start, piece_index, safety_counter,
             adjust_attempts, warnings, result>>

--------------------------------------------------------------------------
(* Units and tolerances *)

Eps == 1
Tol == 1000
Metre == 1000 * Tol
Cm == 10 * Tol

Max2(a, b) == IF a >= b THEN a ELSE b
Min2(a, b) == IF a <= b THEN a ELSE b
Abs(a) == IF a < 0 THEN 0 - a ELSE a
SetMin(S) == CHOOSE x \in S : \A y \in S : x <= y
SetMax(S) == CHOOSE x \in S : \A y \in S : x >= y

None == [found |-> FALSE, value |-> 0]
Some(v) == [found |-> TRUE, value |-> v]

--------------------------------------------------------------------------
(* Prohibited zones: records [start_m, end_m, antes]; antes says that the  *)
(* description contains the word "antes".                                  *)

\* Mutant: the loop returns after looking at the first zone only.
_overlaps_first_zone_only(start, end, zones) ==
    /\ zones # <<>>
    /\ Max2(start, zones[1].start_m) < Min2(end, zones[1].end_m)

_overlaps_prohibited_zone(start, end, zones) ==
    \E i \in 1..Len(zones) :
        Max2(start, zones[i].start_m) < Min2(end, zones[i].end_m)

\* The first zone of the list that overlaps [start, end], or None.
_find_overlapping_zone(start, end, zones) ==
    LET hits == {i \in 1..Len(zones) :
                    Max2(start, zones[i].start_m) < Min2(end, zones[i].end_m)}
    IN  IF hits = {} THEN [found |-> FALSE, zone |-> [start_m |-> 0, end_m |-> 0, antes |-> FALSE]]
        ELSE [found |-> TRUE, zone |-> zones[SetMin(hits)]]

\* The loop keeps the last zone end below position - tolerance and stops at
\* the first zone that is not below it.
_find_zone_end_before(position, zones) ==
    LET notBefore == {i \in 1..Len(zones) : ~(zones[i].end_m < position - Tol)}
        stop == IF notBefore = {} THEN Len(zones) + 1 ELSE SetMin(notBefore)
    IN  IF stop = 1 THEN None ELSE Some(zones[stop - 1].end_m)

_find_next_before_zone(position, zones) ==
    LET hits == {i \in 1..Len(zones) :
                    zones[i].start_m >= position + Tol /\ zones[i].antes}
    IN  IF hits = {} THEN [found |-> FALSE, zone |-> [start_m |-> 0, end_m |-> 0, antes |-> FALSE]]
        ELSE [found |-> TRUE, zone |-> zones[SetMin(hits)]]

MaxAdjustAttempts == 20

RECURSIVE AdjustLoop(_, _, _, _, _, _)
AdjustLoop(cur, candidate_end, splice_length, zones, adjusted_end, attempts) ==
    IF ~(attempts < MaxAdjustAttempts)
    THEN [end |-> adjusted_end, attempts |-> attempts]
    ELSE LET n == attempts + 1
             js0 == adjusted_end - splice_length
             joint_start == IF js0 < cur + Tol THEN cur + Tol ELSE js0
         IN  IF ~_overlaps_prohibited_zone(joint_start, adjusted_end, zones)
             THEN [end |-> adjusted_end, attempts |-> n]
             ELSE LET z == _find_overlapping_zone(joint_start, adjusted_end, zones)
                      shifted_end == z.zone.start_m - Tol
                  IN  IF ~z.found
                      THEN [end |-> adjusted_end, attempts |-> n]
                      ELSE IF shifted_end - splice_length <= cur + Tol
                      THEN [end |-> candidate_end, attempts |-> n]
                      ELSE AdjustLoop(cur, candidate_end, splice_length, zones, shifted_end, n)

\* Returns the adjusted end and the number of attempts the loop used.
_adjust_segment_end_for_splice_zones(cur, candidate_end, splice_length, zones) ==
    AdjustLoop(cur, candidate_end, splice_length, zones, candidate_end, 0)

_prefer_splice_in_previous_corridor(cur, joint_start, candidate_end, splice_length, zones) ==
    LET before_zone == _find_next_before_zone(joint_start, zones)
        prev_end == _find_zone_end_before(before_zone.zone.start_m, zones)
        corridor_end == before_zone.zone.start_m - Tol
        available == corridor_end - prev_end.value
        target_end == Min2(prev_end.value + splice_length, corridor_end)
    IN  IF splice_length <= 0 THEN candidate_end
        ELSE IF ~before_zone.found THEN candidate_end
        ELSE IF ~prev_end.found \/ prev_end.value < cur + Tol THEN candidate_end
        ELSE IF available < splice_length - Tol THEN candidate_end
        ELSE IF target_end <= cur + Tol THEN candidate_end
        ELSE target_end

_target_bottom_corridor_end(cur, candidate_end, splice_length, zones) ==
    LET before_zone == _find_next_before_zone(cur, zones)
        prev_end == _find_zone_end_before(before_zone.zone.start_m, zones)
        corridor_end == before_zone.zone.start_m - Tol
        target == Min2(Min2(prev_end.value + splice_length, corridor_end), candidate_end)
    IN  IF ~before_zone.found THEN None
        ELSE IF ~prev_end.found THEN None
        ELSE IF target - cur < splice_length - Tol THEN None
        ELSE Some(target)

ScanStep == 10 * Cm

\* test_positions: start_range + k*step while <= end_range + tolerance, then
\* the midpoint of every consecutive pair; the first clear one in sorted order.
_find_safe_splice_position(start_range, end_range, splice_length, zones) ==
    LET step == Max2(ScanStep, Tol)
        n == (end_range + Tol - start_range) \div step
        test_positions == {start_range + k * step : k \in 0..n}
                          \cup {start_range + k * step + step \div 2 : k \in 0..(n - 1)}
        clear == {p \in test_positions :
                     ~\E i \in 1..Len(zones) :
                         Max2(p - splice_length \div 2, zones[i].start_m)
                             < Min2(p + splice_length \div 2, zones[i].end_m)}
    IN  IF splice_length <= 0 \/ end_range - start_range <= Tol THEN None
        ELSE IF clear = {} THEN None
        ELSE Some(SetMin(clear))

--------------------------------------------------------------------------
(* Segmentation.  A loop state is a record                                 *)
(*   [segments, joints, current_start, piece_index, safety_counter,        *)
(*    adjust_attempts, warnings, brk]                                      *)
(* where brk says that the body left the loop by a break.  A segment       *)
(* keeps the fields of RebarDetail the claims read; its id <bar>-S<NN> is  *)
(* the pair (bar, piece).  A splice list holds references (indices) into   *)
(* the joints list, because both neighbours share one dict object.         *)

SafetyLimit == 100

W_SPLICE_GE_LMAX == "No se puede segmentar la barra: splice >= Lmax"
W_HOOKS == "los ganchos consumen la longitud maxima"
W_TOP_JOINT_IN_ZONE == "No se pudo ubicar el empalme fuera de zonas prohibidas"
W_BOTTOM_JOINT_IN_ZONE == "empalme inferior aun cae en zona prohibida"
W_NO_SAFE_CORRIDOR == "no se encontro corredor seguro para el primer empalme"
W_LIMIT == "Se alcanzo el limite de segmentacion"

Cover(a) == Max2(a.min_edge_cover_m, a.edge_cover)
HasStartHook(a) == a.hook_length # 0 /\ a.bar.start_m <= Cover(a) + Tol
HasEndHook(a) == a.hook_length # 0 /\ a.bar.end_m >= a.beam_length - Cover(a) - Tol

LoopStart(a) ==
    [segments |-> <<>>, joints |-> <<>>, current_start |-> a.bar.start_m,
     piece_index |-> 1, safety_counter |-> 0, adjust_attempts |-> 0,
     warnings |-> {}, brk |-> FALSE]

LoopCondition(a, st) ==
    st.current_start < a.bar.end_m - Eps /\ st.safety_counter < SafetyLimit

MakeSegment(a, st, segment_end) ==
    [bar |-> a.bar.id, piece |-> st.piece_index, position |-> a.bar.position,
     start_m |-> st.current_start, end_m |-> segment_end,
     length_m |-> segment_end - st.current_start,
     hook_type |-> a.bar.hook_type, splices |-> <<>>]

MakeJoint(a, segment_end, position) ==
    LET joint_start == Max2(a.bar.start_m, segment_end - a.splice_length)
    IN  [start |-> joint_start, end |-> segment_end,
         length |-> segment_end - joint_start, position |-> position,
         adjusted |-> FALSE, original_center |-> 0]

\* Lines 145-188 and 335-387: the tail of one loop pass, the same in both
\* strategies but for the warning text and the position tag.  e is the
\* segment end with the attempts and the warnings of the pass so far.
FinishPass(a, st, e, zoneWarning, position) ==
    LET joint == MakeJoint(a, e.end, position)
        base == [st EXCEPT !.safety_counter = st.safety_counter + 1,
                           !.adjust_attempts = e.attempts,
                           !.warnings = e.warnings]
    IN  IF e.end - st.current_start <= 0 THEN [base EXCEPT !.brk = TRUE]
        ELSE IF e.end >= a.bar.end_m - Eps
        THEN [base EXCEPT !.segments = Append(st.segments, MakeSegment(a, st, e.end)),
                          !.brk = TRUE]
        ELSE [base EXCEPT !.segments = Append(st.segments, MakeSegment(a, st, e.end)),
                          !.joints = Append(st.joints, joint),
                          !.warnings = IF _overlaps_prohibited_zone(joint.start, joint.end, a.zones)
                                       THEN e.warnings \cup {zoneWarning} ELSE e.warnings,
                          !.current_start = joint.start,
                          !.piece_index = st.piece_index + 1]

\* The budget of a pass that deducts the hook at the start only.
PassBudget_StartHookOnly(a, st) ==
    LET remaining_length == Max2(a.bar.end_m - st.current_start, 0)
        hook_deduction ==
            IF HasStartHook(a) /\ st.piece_index = 1 THEN a.hook_length ELSE 0
        usable_max == a.max_length - hook_deduction
    IN  [remaining_length |-> remaining_length,
         usable_max |-> IF usable_max <= 0 THEN a.max_length ELSE usable_max,
         warnings |-> IF usable_max <= 0 THEN st.warnings \cup {W_HOOKS} ELSE st.warnings]

\* Lines 90-106 and 249-265: remaining length and usable maximum of a pass.
PassBudget(a, st) ==
    LET remaining_length == Max2(a.bar.end_m - st.current_start, 0)
        hook_deduction ==
            (IF HasStartHook(a) /\ st.piece_index = 1 THEN a.hook_length ELSE 0)
            + (IF HasEndHook(a) /\ remaining_length <= a.max_length + Tol
               THEN a.hook_length ELSE 0)
        usable_max == a.max_length - hook_deduction
    IN  [remaining_length |-> remaining_length,
         usable_max |-> IF usable_max <= 0 THEN a.max_length ELSE usable_max,
         warnings |-> IF usable_max <= 0 THEN st.warnings \cup {W_HOOKS} ELSE st.warnings]

\* Mutant: the piece takes all that remains, not capped by the usable maximum.
TopCandidate_Uncapped(a, st, b) ==
    [candidate_end |-> st.current_start + b.remaining_length,
     is_last_segment |-> st.current_start + b.remaining_length >= a.bar.end_m - Tol]

\* Mutant: the first piece is shortened whatever remains.
TopCandidate_AlwaysShort(a, st, b) ==
    LET segment_length ==
            IF st.piece_index = 1
            THEN Min2((b.usable_max * 6) \div 10, b.remaining_length)
            ELSE Min2(b.usable_max, b.remaining_length)
    IN  [candidate_end |-> st.current_start + segment_length,
         is_last_segment |-> st.current_start + segment_length >= a.bar.end_m - Tol]

\* Mutant: the first piece is shortened from 1.5 times max_length on.
TopCandidate_LowThreshold(a, st, b) ==
    LET segment_length ==
            IF st.piece_index = 1 /\ b.remaining_length * 10 > a.max_length * 15
            THEN Min2((b.usable_max * 6) \div 10, b.remaining_length)
            ELSE Min2(b.usable_max, b.remaining_length)
    IN  [candidate_end |-> st.current_start + segment_length,
         is_last_segment |-> st.current_start + segment_length >= a.bar.end_m - Tol]

\* Lines 108-113.
TopCandidate(a, st, b) ==
    LET segment_length ==
            IF st.piece_index = 1 /\ b.remaining_length * 10 > a.max_length * 18
            THEN Min2((b.usable_max * 6) \div 10, b.remaining_length)
            ELSE Min2(b.usable_max, b.remaining_length)
    IN  [candidate_end |-> st.current_start + segment_length,
         is_last_segment |-> st.current_start + segment_length >= a.bar.end_m - Tol]

\* Lines 115-133.
TopPreferred(a, st, c) ==
    LET joint_start_candidate == Max2(a.bar.start_m, c.candidate_end - a.splice_length)
        preferred_end == _prefer_splice_in_previous_corridor(st.current_start,
                             joint_start_candidate, c.candidate_end, a.splice_length, a.zones)
    IN  IF /\ a.prefer_previous_zone /\ ~c.is_last_segment /\ a.splice_length > 0
           /\ a.bar.end_m - joint_start_candidate <= a.max_length + Tol
           /\ preferred_end < c.candidate_end - Tol
        THEN [candidate_end |-> preferred_end,
              is_last_segment |-> preferred_end >= a.bar.end_m - Tol]
        ELSE c

\* Lines 135-143.
TopSegmentEnd(a, st, c, w) ==
    LET adj == _adjust_segment_end_for_splice_zones(st.current_start, c.candidate_end,
                                                    a.splice_length, a.zones)
    IN  IF c.is_last_segment
        THEN [end |-> a.bar.end_m, attempts |-> 0, warnings |-> w]
        ELSE [end |-> adj.end, attempts |-> adj.attempts, warnings |-> w]

\* One pass of the while loop of _split_top_bar_strategy.
TopPass(a, st) ==
    IF PassBudget(a, st).remaining_length <= 0
    THEN [st EXCEPT !.safety_counter = st.safety_counter + 1, !.brk = TRUE]
    ELSE FinishPass(a, st,
             TopSegmentEnd(a, st,
                 TopPreferred(a, st, TopCandidate(a, st, PassBudget(a, st))),
                 PassBudget(a, st).warnings),
             W_TOP_JOINT_IN_ZONE, "top")

RatioTol == 1

\* The target with one formula for every ratio: 0.4 of the length at ratio 0.
FirstSegmentTarget_NoDefaultBranch(a) ==
    LET total_length == Max2(a.bar.end_m - a.bar.start_m, 0)
        offset_ratio == Max2(0, Min2(a.splice_offset_ratio, 600))
        target == Min2((total_length \div 2000) * (800 + offset_ratio),
                       IF offset_ratio > RatioTol THEN a.max_length
                       ELSE (a.max_length * 4) \div 5)
    IN  Min2(Max2(target, (a.splice_length * 3) \div 2), total_length)

\* Lines 231-238; splice_offset_ratio is held in thousandths.
FirstSegmentTarget(a) ==
    LET total_length == Max2(a.bar.end_m - a.bar.start_m, 0)
        offset_ratio == Max2(0, Min2(a.splice_offset_ratio, 600))
        target == IF offset_ratio > RatioTol
                  THEN Min2((total_length \div 2000) * (800 + offset_ratio), a.max_length)
                  ELSE Min2((total_length * 9) \div 20, (a.max_length * 4) \div 5)
    IN  Min2(Max2(target, (a.splice_length * 3) \div 2), total_length)

\* Lines 267-276.
BottomCandidate(a, st, b) ==
    LET len == Min2(b.usable_max, b.remaining_length)
        segment_length == IF st.piece_index = 1 THEN Min2(len, FirstSegmentTarget(a)) ELSE len
        candidate_end == Min2(st.current_start + segment_length, a.bar.end_m)
    IN  [candidate_end |-> candidate_end,
         is_last_segment |-> candidate_end >= a.bar.end_m - Tol,
         needs_zone_adjustment |-> TRUE,
         warnings |-> b.warnings]

\* Lines 277-292.
BottomCorridor(a, st, c) ==
    LET corridor_target == _target_bottom_corridor_end(st.current_start, c.candidate_end,
                                                       a.splice_length, a.zones)
    IN  IF st.piece_index = 1 /\ ~c.is_last_segment /\ corridor_target.found
        THEN [c EXCEPT !.candidate_end = Min2(a.bar.end_m, corridor_target.value),
                       !.is_last_segment =
                           Min2(a.bar.end_m, corridor_target.value) >= a.bar.end_m - Tol,
                       !.needs_zone_adjustment = FALSE]
        ELSE c

\* Lines 294-322.
BottomScan(a, st, c) ==
    LET safe_center == _find_safe_splice_position(st.current_start + a.splice_length,
                           c.candidate_end, a.splice_length, a.zones)
    IN  IF ~(st.piece_index = 1 /\ ~c.is_last_segment /\ c.needs_zone_adjustment) THEN c
        ELSE IF ~_overlaps_prohibited_zone(
                    Max2(a.bar.start_m, c.candidate_end - a.splice_length),
                    c.candidate_end, a.zones)
        THEN [c EXCEPT !.needs_zone_adjustment = FALSE]
        ELSE IF safe_center.found
        THEN [c EXCEPT !.candidate_end = Min2(a.bar.end_m, safe_center.value),
                       !.needs_zone_adjustment = FALSE]
        ELSE [c EXCEPT !.warnings = c.warnings \cup {W_NO_SAFE_CORRIDOR}]

\* Lines 324-334.
BottomSegmentEnd(a, st, c) ==
    LET adj == _adjust_segment_end_for_splice_zones(st.current_start, c.candidate_end,
                                                    a.splice_length, a.zones)
    IN  IF ~c.is_last_segment /\ c.needs_zone_adjustment
        THEN [end |-> IF adj.end >= a.bar.end_m - Tol THEN a.bar.end_m ELSE adj.end,
              attempts |-> adj.attempts, warnings |-> c.warnings]
        ELSE [end |-> IF c.is_last_segment THEN a.bar.end_m ELSE c.candidate_end,
              attempts |-> 0, warnings |-> c.warnings]

\* One pass of the while loop of _split_bottom_bar_strategy.
BottomPass(a, st) ==
    IF PassBudget(a, st).remaining_length <= 0
    THEN [st EXCEPT !.safety_counter = st.safety_counter + 1, !.brk = TRUE]
    ELSE FinishPass(a, st,
             BottomSegmentEnd(a, st,
                 BottomScan(a, st,
                     BottomCorridor(a, st, BottomCandidate(a, st, PassBudget(a, st))))),
             W_BOTTOM_JOINT_IN_ZONE, "bottom")

\* Lines 190-204 and 389-403: the limit warning and the splice lists.
AttachSplices(st) ==
    [idx \in 1..Len(st.segments) |->
        [st.segments[idx] EXCEPT !.splices =
            (IF idx > 1 THEN <<idx - 1>> ELSE <<>>)
            \o (IF idx <= Len(st.joints) THEN <<idx>> ELSE <<>>)]]

LimitWarning(st) ==
    IF st.safety_counter >= SafetyLimit THEN st.warnings \cup {W_LIMIT} ELSE st.warnings

\* What a call returns: unsplit says that the list is [bar] itself.
Unsplit(a, w) ==
    [unsplit |-> TRUE, segments |-> <<>>, joints |-> <<>>, warnings |-> w]

StrategyReturn(a, st) ==
    IF st.segments = <<>> THEN Unsplit(a, LimitWarning(st))
    ELSE [unsplit |-> FALSE, segments |-> AttachSplices(st), joints |-> st.joints,
          warnings |-> LimitWarning(st)]

\* Mutant: splice_length > max_length where the code has >=.
SkipReason_StrictSplice(a) ==
    IF a.max_length <= 0 \/ a.bar.length_m <= a.max_length THEN "fits"
    ELSE IF a.splice_length <= 0 \/ a.splice_length > a.max_length THEN "splice"
    ELSE "none"

\* Lines 27-37: the early returns of _split_bar_by_max_length.
SkipReason(a) ==
    IF a.max_length <= 0 \/ a.bar.length_m <= a.max_length THEN "fits"
    ELSE IF a.splice_length <= 0 \/ a.splice_length >= a.max_length THEN "splice"
    ELSE "none"

RECURSIVE RunLoop(_, _)
RunLoop(a, st) ==
    IF st.brk \/ ~LoopCondition(a, st) THEN st
    ELSE RunLoop(a, IF a.is_bottom_bar THEN BottomPass(a, st) ELSE TopPass(a, st))

\* The whole call as a function of its arguments.
_split_bar_by_max_length(a) ==
    IF SkipReason(a) = "fits" THEN Unsplit(a, {})
    ELSE IF SkipReason(a) = "splice" THEN Unsplit(a, {W_SPLICE_GE_LMAX})
    ELSE StrategyReturn(a, RunLoop(a, LoopStart(a)))

--------------------------------------------------------------------------
(* Inputs *)

MaxZones == 2

BeamLength == 14 * Metre
BarStarts == {0, 3 * Metre}
BarEnds == {10 * Metre, 14 * Metre}
MaxLengths == {0, 6 * Metre, 9 * Metre, 12 * Metre}
SpliceLengths == {0, 90 * Cm, 150 * Cm, 4 * Metre, 6 * Metre}
HookLengths == {0, 30 * Cm}
LongHooks == {5 * Metre, 6 * Metre}
OffsetRatios == {0, 300, 600}

Zone(s, e, antes) == [start_m |-> s, end_m |-> e, antes |-> antes]

ZonePool ==
    { Zone(52 * Cm, 201 * Cm, FALSE),
      Zone(302 * Cm, 422 * Cm, FALSE),
      Zone(453 * Cm, 551 * Cm, TRUE),
      Zone(604 * Cm, 753 * Cm, TRUE),
      Zone(803 * Cm, 952 * Cm, FALSE) }

ZoneLists == UNION {[1..n -> ZonePool] : n \in 0..MaxZones}

Bar(id, position, s, e) ==
    [id |-> id, position |-> position, start_m |-> s, end_m |-> e,
     length_m |-> e - s, hook_type |-> "135"]

Args(bar, max_length, splice_length, zones, hook_length, prefer, ratio, bottom) ==
    [bar |-> bar, max_length |-> max_length, splice_length |-> splice_length,
     zones |-> zones, hook_length |-> hook_length, edge_cover |-> 5 * Cm,
     min_edge_cover_m |-> 4 * Cm, beam_length |-> BeamLength,
     prefer_previous_zone |-> prefer, splice_offset_ratio |-> ratio,
     is_bottom_bar |-> bottom]

\* The arguments of a top-bar call, of a bottom-bar call, and of a call
\* whose hook leaves less than one splice length of a commercial bar.
IsInput(a) ==
    \/ \E s \in BarStarts, e \in BarEnds, m \in MaxLengths, l \in SpliceLengths,
          z \in ZoneLists, h \in HookLengths, p \in BOOLEAN :
          a = Args(Bar("T1", "top", s, e), m, l, z, h, p, 0, FALSE)
    \/ \E s \in BarStarts, e \in BarEnds, m \in MaxLengths, l \in SpliceLengths,
          z \in ZoneLists, h \in HookLengths, r \in OffsetRatios :
          a = Args(Bar("B1", "bottom", s, e), m, l, z, h, FALSE, r, TRUE)
    \/ \E s \in BarStarts, e \in BarEnds, h \in LongHooks, b \in BOOLEAN :
          a = Args(Bar(IF b THEN "B1" ELSE "T1", IF b THEN "bottom" ELSE "top", s, e),
                   6 * Metre, 150 * Cm, <<>>, h, FALSE, 0, b)

--------------------------------------------------------------------------
(* The segmentation call as a state machine: the dispatch, one action per  *)
(* loop pass, and the return.                                              *)

NoResult == [unsplit |-> FALSE, segments |-> <<>>, joints |-> <<>>, warnings |-> {}]
CoIdle == [phase |-> "idle"]
DrIdle == [phase |-> "idle"]
FnIdle == [phase |-> "idle"]

St == [segments |-> segments, joints |-> joints, current_start |-> current_start,
       piece_index |-> piece_index, safety_counter |-> safety_counter,
       adjust_attempts |-> adjust_attempts, warnings |-> warnings, brk |-> FALSE]

SetLoop(st) ==
    /\ segments' = st.segments
    /\ joints' = st.joints
    /\ current_start' = st.current_start
    /\ piece_index' = st.piece_index
    /\ safety_counter' = st.safety_counter
    /\ adjust_attempts' = st.adjust_attempts
    /\ warnings' = st.warnings

Init ==
    /\ IsInput(inp)
    /\ pc = "call"
    /\ segments = <<>>
    /\ joints = <<>>
    /\ current_start = inp.bar.start_m
    /\ piece_index = 1
    /\ safety_counter = 0
    /\ adjust_attempts = 0
    /\ warnings = {}
    /\ result = NoResult
    /\ co = CoIdle
    /\ dr = DrIdle
    /\ fn = FnIdle

SplitBarByMaxLength ==
    /\ pc = "call"
    /\ IF SkipReason(inp) = "fits"
       THEN /\ result' = Unsplit(inp, {})
            /\ pc' = "done"
            /\ UNCHANGED warnings
       ELSE IF SkipReason(inp) = "splice"
       THEN /\ result' = Unsplit(inp, {W_SPLICE_GE_LMAX})
            /\ warnings' = {W_SPLICE_GE_LMAX}
            /\ pc' = "done"
       ELSE /\ pc' = IF inp.is_bottom_bar THEN "bottom" ELSE "top"
            /\ UNCHANGED <<result, warnings>>
    /\ UNCHANGED <<inp, segments, joints, current_start, piece_index, safety_counter,
                   adjust_attempts, co, dr, fn>>

TopLoopPass ==
    /\ pc = "top"
    /\ LoopCondition(inp, St)
    /\ LET st == TopPass(inp, St)
       IN  /\ SetLoop(st)
           /\ pc' = IF st.brk THEN "top_exit" ELSE "top"
    /\ UNCHANGED <<inp, result, co, dr, fn>>

TopReturn ==
    /\ pc = "top_exit" \/ (pc = "top" /\ ~LoopCondition(inp, St))
    /\ result' = StrategyReturn(inp, St)
    /\ warnings' = LimitWarning(St)
    /\ pc' = "done"
    /\ UNCHANGED <<inp, segments, joints, current_start, piece_index, safety_counter,
                   adjust_attempts, co, dr, fn>>

BottomLoopPass ==
    /\ pc = "bottom"
    /\ LoopCondition(inp, St)
    /\ LET st == BottomPass(inp, St)
       IN  /\ SetLoop(st)
           /\ pc' = IF st.brk THEN "bottom_exit" ELSE "bottom"
    /\ UNCHANGED <<inp, result, co, dr, fn>>

BottomReturn ==
    /\ pc = "bottom_exit" \/ (pc = "bottom" /\ ~LoopCondition(inp, St))
    /\ result' = StrategyReturn(inp, St)
    /\ warnings' = LimitWarning(St)
    /\ pc' = "done"
    /\ UNCHANGED <<inp, segments, joints, current_start, piece_index, safety_counter,
                   adjust_attempts, co, dr, fn>>

Next ==
    \/ SplitBarByMaxLength
    \/ TopLoopPass
    \/ TopReturn
    \/ BottomLoopPass
    \/ BottomReturn

Spec == Init /\ [][Next]_vars

--------------------------------------------------------------------------
(* Splice coordination: the top bar is segmented, then the bottom bar,      *)
(* then _coordinate_splice_positions walks the splice lists of the bottom  *)
(* segments.  The splice records of the bottom bar live in co.heap; a      *)
(* segment's splices are indices into it, so the record of a joint is the  *)
(* one object that both adjoining segments hold.                           *)

\* BeamDetailingService._is_in_prohibited_zone: the position is inside a
\* zone or closer to it than the splice length.
_is_in_prohibited_zone(position, zones, splice_length) ==
    \E i \in 1..Len(zones) :
        /\ zones[i].start_m - splice_length <= position
        /\ position <= zones[i].end_m + splice_length

max_attempts == 10
offset_candidates == <<50 * Cm, 100 * Cm, 150 * Cm, 200 * Cm, 250 * Cm, 300 * Cm>>

\* Lines 522-523 and 531-534.
SpliceLength(splice) ==
    IF splice.length # 0 THEN splice.length ELSE Max2(splice.end - splice.start, 0)

SpliceCenter(splice) == (splice.start + splice.end) \div 2

Existing(center, length, type) == [center |-> center, length |-> length, type |-> type]

\* Lines 535-540: min_distance is 1.5 times the longer of the two splices.
HasConflict(original_center, length, existing_splices) ==
    \E i \in 1..Len(existing_splices) :
        2 * Abs(original_center - existing_splices[i].center)
            < 3 * Max2(length, existing_splices[i].length)

\* Mutant: the candidate is compared with the top splices only.
SearchConflict_TopOnly(test_center, splice_length, existing_splice_positions) ==
    \E i \in 1..Len(existing_splice_positions) :
        /\ existing_splice_positions[i].type = "top"
        /\ 10 * Abs(test_center - existing_splice_positions[i].center)
              < 12 * Max2(splice_length, existing_splice_positions[i].length)

\* Mutant: the candidate is compared with the bottom splices only.
SearchConflict_BottomOnly(test_center, splice_length, existing_splice_positions) ==
    \E i \in 1..Len(existing_splice_positions) :
        /\ existing_splice_positions[i].type = "bottom"
        /\ 10 * Abs(test_center - existing_splice_positions[i].center)
              < 12 * Max2(splice_length, existing_splice_positions[i].length)

\* Lines 607-612: min_distance is 1.2 times the longer of the two splices.
SearchConflict(test_center, splice_length, existing_splice_positions) ==
    \E i \in 1..Len(existing_splice_positions) :
        10 * Abs(test_center - existing_splice_positions[i].center)
            < 12 * Max2(splice_length, existing_splice_positions[i].length)

\* Line 602: the k-th candidate of the search, k = 0, 1, ..., in the order
\* of the three nested loops (attempts, magnitude, direction).
TestCenter(original_center, k) ==
    LET attempts == k \div (2 * Len(offset_candidates))
        magnitude == offset_candidates[((k \div 2) % Len(offset_candidates)) + 1]
        direction == IF k % 2 = 0 THEN 1 ELSE -1
    IN  original_center + direction * magnitude * (attempts + 1)

\* Lines 603-613.
Acceptable(test_center, splice_length, existing, zones, beam_length) ==
    /\ ~(2 * test_center < splice_length
            \/ 2 * test_center > 2 * beam_length - splice_length)
    /\ ~_is_in_prohibited_zone(test_center, zones, splice_length)
    /\ ~SearchConflict(test_center, splice_length, existing)

\* Mutant: attempts <= max_attempts where the code has <.
AttemptsGoOn_Inclusive(attempts) == attempts <= max_attempts

\* Line 599: while attempts < max_attempts.
AttemptsGoOn(attempts) == attempts < max_attempts

\* The rounds that the loop of lines 599-615 runs, and the candidates of
\* one round.
Rounds == {a \in 0..max_attempts : \A b \in 0..a : AttemptsGoOn(b)}
PerRound == 2 * Len(offset_candidates)

NoSearch == [found |-> FALSE, value |-> 0, tests |-> 0]

\* Lines 599-618: the first acceptable candidate in loop order; tests
\* counts the candidate centers computed.
FirstAcceptable(original_center, splice_length, existing, zones, beam_length) ==
    LET ok == {k \in 0..(PerRound * Cardinality(Rounds) - 1) :
                  Acceptable(TestCenter(original_center, k), splice_length,
                             existing, zones, beam_length)}
    IN  IF ok = {}
        THEN [found |-> FALSE, value |-> 0, tests |-> PerRound * Cardinality(Rounds)]
        ELSE [found |-> TRUE, value |-> TestCenter(original_center, SetMin(ok)),
              tests |-> SetMin(ok) + 1]

_find_non_conflicting_splice_position(original_center, splice_length, existing, zones, beam_length) ==
    IF splice_length <= 0 THEN NoSearch
    ELSE FirstAcceptable(original_center, splice_length, existing, zones, beam_length)

\* The splice lists of a bar list read in loop order (lines 518-521 and
\* 526-530): which bar, and which record of the heap.
RECURSIVE SpliceRefs(_, _)
SpliceRefs(bars, i) ==
    IF i > Len(bars) THEN <<>>
    ELSE [k \in 1..Len(bars[i].splices) |-> [bar |-> i, joint |-> bars[i].splices[k]]]
         \o SpliceRefs(bars, i + 1)

\* Lines 517-524.
TopExisting(top) ==
    [n \in 1..Len(SpliceRefs(top.segments, 1)) |->
        Existing(SpliceCenter(top.joints[SpliceRefs(top.segments, 1)[n].joint]),
                 SpliceLength(top.joints[SpliceRefs(top.segments, 1)[n].joint]),
                 "top")]

\* Lines 542-544: no conflict, the splice is registered where it is.
AcceptAsIs(c, ref, length, original_center) ==
    [c EXCEPT !.existing_splices = Append(@, Existing(original_center, length, "bottom")),
              !.cursor = @ + 1, !.joint = ref.joint, !.length = length,
              !.original_center = original_center, !.has_conflict = FALSE,
              !.new_center = NoSearch]

\* Lines 555-565: the record is rewritten in place and the bar is noted.
Relocate(c, ref, length, original_center, found) ==
    LET new_start == Max2(0, found.value - length \div 2)
        new_end == Min2(c.beam_length, found.value + length \div 2)
    IN  [c EXCEPT !.heap[ref.joint] =
                      [@ EXCEPT !.start = new_start, !.end = new_end,
                                !.length = new_end - new_start, !.adjusted = TRUE,
                                !.original_center = original_center],
                  !.existing_splices =
                      Append(@, Existing((new_start + new_end) \div 2,
                                         new_end - new_start, "bottom")),
                  !.notes = @ \cup {ref.bar},
                  !.cursor = @ + 1, !.joint = ref.joint, !.length = length,
                  !.original_center = original_center, !.has_conflict = TRUE,
                  !.new_center = found]

\* Mutant: the splice that stays is not added to the registered centers.
KeepColliding_NotRegistered(c, ref, length, original_center, found) ==
    [c EXCEPT !.warnings = @ \cup {[bar |-> ref.bar, center |-> original_center]},
              !.cursor = @ + 1, !.joint = ref.joint, !.length = length,
              !.original_center = original_center, !.has_conflict = TRUE,
              !.new_center = found]

\* Lines 566-572: no position found, the splice stays and the warning names
\* the bar and the center.
KeepColliding(c, ref, length, original_center, found) ==
    [c EXCEPT !.existing_splices = Append(@, Existing(original_center, length, "bottom")),
              !.warnings = @ \cup {[bar |-> ref.bar, center |-> original_center]},
              !.cursor = @ + 1, !.joint = ref.joint, !.length = length,
              !.original_center = original_center, !.has_conflict = TRUE,
              !.new_center = found]

Resolve(c, ref, length, original_center, found) ==
    IF found.found THEN Relocate(c, ref, length, original_center, found)
    ELSE KeepColliding(c, ref, length, original_center, found)

\* Lines 530-572: the loop body for one splice of one bottom bar.
VisitSplice(c, ref) ==
    LET length == SpliceLength(c.heap[ref.joint])
        original_center == SpliceCenter(c.heap[ref.joint])
    IN  IF length <= 0 THEN [c EXCEPT !.cursor = @ + 1]
        ELSE IF ~HasConflict(original_center, length, c.existing_splices)
        THEN AcceptAsIs(c, ref, length, original_center)
        ELSE Resolve(c, ref, length, original_center,
                     _find_non_conflicting_splice_position(
                         original_center, length, c.existing_splices,
                         c.prohibited_zones, c.beam_length))

\* The bars of the pipeline: both span the beam from 0, the zones are
\* shared, the commercial lengths may differ.
CoordBarEnds == {9 * Metre, 14 * Metre}
CoordSpliceLengths == {75 * Cm, 150 * Cm, 4 * Metre}
TopMaxLengths == {5375 * Tol, 6 * Metre}
BottomMaxLengths == {5475 * Tol, 6020 * Tol}
CoordRatios == {0, 600}

CoStart(bottom) ==
    [phase |-> "top", bottom |-> bottom, top_bars |-> NoResult,
     bottom_bars |-> <<>>, heap |-> <<>>, existing_splices |-> <<>>,
     prohibited_zones |-> bottom.zones, beam_length |-> bottom.beam_length,
     visits |-> <<>>, cursor |-> 1, notes |-> {}, warnings |-> {},
     joint |-> 0, length |-> 0, original_center |-> 0, has_conflict |-> FALSE,
     new_center |-> NoSearch]

IsPipeline(top, c) ==
    \/ \E e \in CoordBarEnds, l \in CoordSpliceLengths, z \in ZoneLists,
          mt \in TopMaxLengths, mb \in BottomMaxLengths, r \in CoordRatios :
          /\ top = Args(Bar("T1", "top", 0, e), mt, l, z, 0, FALSE, 0, FALSE)
          /\ c = CoStart(Args(Bar("B1", "bottom", 0, e), mb, l, z, 0, FALSE, r, TRUE))
    \/ \E h \in LongHooks :
          /\ h < 6 * Metre
          /\ top = Args(Bar("T1", "top", 0, BeamLength), 5375 * Tol, 150 * Cm,
                        <<>>, 0, FALSE, 0, FALSE)
          /\ c = CoStart(Args(Bar("B1", "bottom", 0, BeamLength), 6 * Metre,
                                150 * Cm, <<>>, h, FALSE, 0, TRUE))

InitCoord ==
    /\ IsPipeline(inp, co)
    /\ pc = "call"
    /\ segments = <<>>
    /\ joints = <<>>
    /\ current_start = inp.bar.start_m
    /\ piece_index = 1
    /\ safety_counter = 0
    /\ adjust_attempts = 0
    /\ warnings = {}
    /\ result = NoResult
    /\ dr = DrIdle
    /\ fn = FnIdle

\* The service segments the top bars first and the bottom bars next.
StartBottom ==
    /\ pc = "done"
    /\ co.phase = "top"
    /\ co' = [co EXCEPT !.phase = "bottom", !.top_bars = result]
    /\ inp' = co.bottom
    /\ pc' = "call"
    /\ segments' = <<>>
    /\ joints' = <<>>
    /\ current_start' = co.bottom.bar.start_m
    /\ piece_index' = 1
    /\ safety_counter' = 0
    /\ adjust_attempts' = 0
    /\ warnings' = {}
    /\ result' = NoResult
    /\ UNCHANGED <<dr, fn>>

\* Lines 514-524: the early return and the list of the top splices.
CoordinateSplicePositions ==
    /\ pc = "done"
    /\ co.phase = "bottom"
    /\ IF co.beam_length <= 0
       THEN /\ co' = [co EXCEPT !.phase = "coordinate"]
            /\ pc' = "coordinated"
       ELSE /\ co' = [co EXCEPT !.phase = "coordinate",
                                !.bottom_bars = result.segments,
                                !.heap = result.joints,
                                !.existing_splices = TopExisting(co.top_bars),
                                !.visits = SpliceRefs(result.segments, 1)]
            /\ pc' = "coord"
    /\ UNCHANGED <<segVars, dr, fn>>

\* Lines 526-578: one splice of one bottom bar.
CoordinateVisit ==
    /\ pc = "coord"
    /\ co.cursor <= Len(co.visits)
    /\ co' = VisitSplice(co, co.visits[co.cursor])
    /\ UNCHANGED <<pc, segVars, dr, fn>>

\* Line 580.
CoordinateReturn ==
    /\ pc = "coord"
    /\ co.cursor > Len(co.visits)
    /\ pc' = "coordinated"
    /\ UNCHANGED <<segVars, co, dr, fn>>

NextCoord ==
    \/ SplitBarByMaxLength
    \/ TopLoopPass
    \/ TopReturn
    \/ BottomLoopPass
    \/ BottomReturn
    \/ StartBottom
    \/ CoordinateSplicePositions
    \/ CoordinateVisit
    \/ CoordinateReturn

SpecCoord == InitCoord /\ [][NextCoord]_vars

--------------------------------------------------------------------------
(* Drawing: lanes and family stacks of the prepared groups of one          *)
(* position.  A group is [key, start_x, end_x, family_id].  Drawing         *)
(* coordinates count thousandths of a drawing unit, so the 1e-3 tolerance  *)
(* of _assign_lanes is 1.                                                  *)

LaneTol == 1
lane_spacing_mm == 320
family_spacing_mm == 90

KeyLE(g, h) == g.start_x < h.start_x \/ (g.start_x = h.start_x /\ g.end_x <= h.end_x)

\* sorted(segments, key=lambda s: (s.start_x, s.end_x)): a stable sort.
RECURSIVE SortedByStartEnd(_)
SortedByStartEnd(segs) ==
    IF Len(segs) <= 1 THEN segs
    ELSE LET front == SortedByStartEnd(SubSeq(segs, 1, Len(segs) - 1))
             item == segs[Len(segs)]
             keep == {i \in 1..Len(front) : KeyLE(front[i], item)}
             at == IF keep = {} THEN 0 ELSE SetMax(keep)
         IN  SubSeq(front, 1, at) \o <<item>> \o SubSeq(front, at + 1, Len(front))

\* Mutant: a lane is free only from its end onwards, without the tolerance.
LaneStep_NoTolerance(st, item) ==
    LET free == {idx \in 1..Len(st.lane_ends) : item.start_x >= st.lane_ends[idx]}
    IN  IF free # {}
        THEN [lane_ends |-> [st.lane_ends EXCEPT ![SetMin(free)] = item.end_x],
              assignments |-> st.assignments @@ (item.key :> (SetMin(free) - 1))]
        ELSE [lane_ends |-> Append(st.lane_ends, item.end_x),
              assignments |-> st.assignments @@ (item.key :> Len(st.lane_ends))]

\* Mutant: the lane that takes the item keeps its old end.
LaneStep_StaleEnd(st, item) ==
    LET free == {idx \in 1..Len(st.lane_ends) : item.start_x >= st.lane_ends[idx] - LaneTol}
    IN  IF free # {}
        THEN [lane_ends |-> st.lane_ends,
              assignments |-> st.assignments @@ (item.key :> (SetMin(free) - 1))]
        ELSE [lane_ends |-> Append(st.lane_ends, item.end_x),
              assignments |-> st.assignments @@ (item.key :> Len(st.lane_ends))]

\* Lines 242-251: the body of the loop of _assign_lanes for one item.
LaneStep(st, item) ==
    LET free == {idx \in 1..Len(st.lane_ends) : item.start_x >= st.lane_ends[idx] - LaneTol}
    IN  IF free # {}
        THEN [lane_ends |-> [st.lane_ends EXCEPT ![SetMin(free)] = item.end_x],
              assignments |-> st.assignments @@ (item.key :> (SetMin(free) - 1))]
        ELSE [lane_ends |-> Append(st.lane_ends, item.end_x),
              assignments |-> st.assignments @@ (item.key :> Len(st.lane_ends))]

RECURSIVE LaneLoop(_, _)
LaneLoop(st, items) ==
    IF items = <<>> THEN st
    ELSE LaneLoop(LaneStep(st, Head(items)), Tail(items))

\* The assignments dict: key -> lane index, 0-based.
_assign_lanes(segs) ==
    LaneLoop([lane_ends |-> <<>>, assignments |-> <<>>], SortedByStartEnd(segs)).assignments

FamilyMembers(segs, f) == SelectSeq(segs, LAMBDA g : g.family_id = f)

\* The stacks dict: key -> stack index, for the families of two groups or more.
_assign_family_stacks(segs) ==
    LET keyed == {i \in 1..Len(segs) :
                     Len(FamilyMembers(segs, segs[i].family_id)) > 1}
        lanes(i) == _assign_lanes(FamilyMembers(segs, segs[i].family_id))
        min_lane(i) == SetMin({lanes(i)[k] : k \in DOMAIN lanes(i)})
    IN  [k \in {segs[i].key : i \in keyed} |->
            LET i == CHOOSE j \in keyed : segs[j].key = k
            IN  lanes(i)[k] - min_lane(i)]

\* Lines 175-192: the vertical offset of every group, lane_spacing times the
\* family's base lane plus family_spacing times the stack index.
DrawOffsets(segs, assignments, stacks) ==
    [i \in 1..Len(segs) |->
        LET lane_index == assignments[segs[i].key]
            family_base == SetMin({assignments[segs[j].key] :
                               j \in {m \in 1..Len(segs) : segs[m].family_id = segs[i].family_id}})
            stack_index == IF segs[i].key \in DOMAIN stacks THEN stacks[segs[i].key]
                           ELSE Max2(0, lane_index - family_base)
        IN  lane_spacing_mm * family_base + family_spacing_mm * stack_index]

MaxGroups == 4

DrawXs == {0, 2, 3, 5, 6}
Families == {"T1", "T2"}

Group(k, s, e, f) == [key |-> k, start_x |-> s, end_x |-> e, family_id |-> f]

DrInit == [phase |-> "prepare", groups |-> <<>>, assignments |-> <<>>,
           stacks |-> <<>>, offsets |-> <<>>]

\* _prepare_segments hands over the groups sorted by (start_x, end_x) and
\* keyed by their index in that order.
PrepareSegment ==
    /\ dr.phase = "prepare"
    /\ Len(dr.groups) < MaxGroups
    /\ \E s \in DrawXs, e \in DrawXs, f \in Families :
          /\ s < e
          /\ dr.groups # <<>> =>
                KeyLE(dr.groups[Len(dr.groups)], Group(0, s, e, f))
          /\ dr' = [dr EXCEPT !.groups = Append(dr.groups, Group(Len(dr.groups), s, e, f))]
    /\ UNCHANGED <<pc, segVars, co, fn>>

\* _draw_group, line 162.
AssignLanes ==
    /\ dr.phase = "prepare"
    /\ dr.groups # <<>>
    /\ dr' = [dr EXCEPT !.phase = "lanes", !.assignments = _assign_lanes(dr.groups)]
    /\ UNCHANGED <<pc, segVars, co, fn>>

\* _draw_group, line 163.
AssignFamilyStacks ==
    /\ dr.phase = "lanes"
    /\ dr' = [dr EXCEPT !.phase = "stacks", !.stacks = _assign_family_stacks(dr.groups)]
    /\ UNCHANGED <<pc, segVars, co, fn>>

\* _draw_group, lines 175-204: the line of every group is drawn at its offset.
DrawLines ==
    /\ dr.phase = "stacks"
    /\ dr' = [dr EXCEPT !.phase = "drawn",
                        !.offsets = DrawOffsets(dr.groups, dr.assignments, dr.stacks)]
    /\ UNCHANGED <<pc, segVars, co, fn>>

InitDraw ==
    /\ inp = Args(Bar("T1", "top", 0, 0), 0, 0, <<>>, 0, FALSE, 0, FALSE)
    /\ pc = "draw"
    /\ segments = <<>>
    /\ joints = <<>>
    /\ current_start = 0
    /\ piece_index = 1
    /\ safety_counter = 0
    /\ adjust_attempts = 0
    /\ warnings = {}
    /\ result = NoResult
    /\ co = CoIdle
    /\ dr = DrInit
    /\ fn = FnIdle

NextDraw ==
    \/ PrepareSegment
    \/ AssignLanes
    \/ AssignFamilyStacks
    \/ DrawLines

SpecDraw == InitDraw /\ [][NextDraw]_vars

XOverlap(g, h) == Min2(g.end_x, h.end_x) - Max2(g.start_x, h.start_x)

\* C7: two groups that _assign_lanes puts in the same lane do not overlap
\* in x by more than the tolerance.
C7_LaneNoOverlap ==
    dr.phase \in {"lanes", "stacks", "drawn"} =>
        \A i, j \in 1..Len(dr.groups) :
            (i < j /\ dr.assignments[dr.groups[i].key] = dr.assignments[dr.groups[j].key])
                => XOverlap(dr.groups[i], dr.groups[j]) <= LaneTol

C7_Witness ==
    /\ dr.phase = "lanes"
    /\ Len(dr.groups) = 4
    /\ \E i, j \in 1..Len(dr.groups) :
          /\ i < j
          /\ dr.assignments[dr.groups[i].key] = dr.assignments[dr.groups[j].key]
          /\ XOverlap(dr.groups[i], dr.groups[j]) = LaneTol
    /\ \E i \in 1..Len(dr.groups) : dr.assignments[dr.groups[i].key] = 2

\* C8: two groups drawn at the same vertical offset never overlap in x by
\* more than the tolerance.
C8_SameLineNoOverlap ==
    dr.phase = "drawn" =>
        \A i, j \in 1..Len(dr.groups) :
            (i < j /\ dr.offsets[i] = dr.offsets[j])
                => XOverlap(dr.groups[i], dr.groups[j]) <= LaneTol

--------------------------------------------------------------------------
(* Properties of the segmentation call *)

Done == pc = "done"
Split == Done /\ ~result.unsplit
Intersects(s, e, z) == s < z.end_m /\ z.start_m < e
JointInZone(j) == \E i \in 1..Len(inp.zones) : Intersects(j.start, j.end, inp.zones[i])

Tiling(segs, bar) ==
    /\ Len(segs) >= 1
    /\ segs[1].start_m = bar.start_m
    /\ segs[Len(segs)].end_m = bar.end_m
    /\ \A i \in 1..Len(segs) :
          bar.start_m <= segs[i].start_m /\ segs[i].end_m <= bar.end_m
    /\ \A i \in 1..(Len(segs) - 1) :
          Min2(segs[i].end_m, segs[i + 1].end_m)
              - Max2(segs[i].start_m, segs[i + 1].start_m) > 0

\* C1: for every bar that is split, the returned segments start at
\* bar.start_m, end at bar.end_m and every consecutive pair overlaps in an
\* interval of positive length, on every exit path of the loop.
C1_Tiling == Split => Tiling(result.segments, inp.bar)

\* C2: every segment returned for a bar longer than max_length (with
\* 0 < splice_length < max_length) is no longer than max_length, within the
\* 1e-3 tolerance.
C2_SegmentWithinMax ==
    Split => \A i \in 1..Len(result.segments) :
                 result.segments[i].end_m - result.segments[i].start_m
                     <= inp.max_length + Tol

C2_Witness ==
    /\ Split
    /\ Len(result.segments) >= 3
    /\ inp.zones # <<>>
    /\ \E i \in 1..Len(result.segments) :
          result.segments[i].end_m - result.segments[i].start_m = inp.max_length

\* C3: whenever segmentation is not skipped, every splice record has
\* end - start >= splice_length, within the tolerance.
C3_SpliceMinLength ==
    Split => \A k \in 1..Len(result.joints) :
                 result.joints[k].end - result.joints[k].start
                     >= inp.splice_length - Tol

\* C4: every splice produced by either strategy intersects no prohibited
\* zone, or the warning about that joint was logged for the bar in the call.
C4_ZoneOrWarning ==
    Split => \A k \in 1..Len(result.joints) :
                 JointInZone(result.joints[k])
                     => \/ W_TOP_JOINT_IN_ZONE \in result.warnings
                        \/ W_BOTTOM_JOINT_IN_ZONE \in result.warnings

C4_Witness ==
    /\ Split
    /\ \E k \in 1..Len(result.joints) : JointInZone(result.joints[k])
    /\ \E k \in 1..Len(result.joints) : ~JointInZone(result.joints[k])
    /\ result.warnings \cap {W_TOP_JOINT_IN_ZONE, W_BOTTOM_JOINT_IN_ZONE} # {}

\* C6: the call returns the bar itself, with no segments and no splice
\* records, whenever max_length <= 0, bar.length_m <= max_length or
\* splice_length >= max_length; it warns when the bar is longer than a
\* positive max_length and splice_length >= max_length, and logs nothing
\* when max_length <= 0 or bar.length_m <= max_length.
C6_SkipReturnsBar ==
    Done =>
        /\ (inp.max_length <= 0 \/ inp.bar.length_m <= inp.max_length
               \/ inp.splice_length >= inp.max_length)
              => /\ result.unsplit
                 /\ result.segments = <<>>
                 /\ result.joints = <<>>
                 /\ segments = <<>>
                 /\ joints = <<>>
        /\ (inp.max_length > 0 /\ inp.bar.length_m > inp.max_length
               /\ inp.splice_length >= inp.max_length)
              => W_SPLICE_GE_LMAX \in warnings
        /\ (inp.max_length <= 0 \/ inp.bar.length_m <= inp.max_length)
              => warnings = {}

C6_Witness ==
    /\ Done
    /\ inp.max_length > 0
    /\ inp.bar.length_m > inp.max_length
    /\ inp.splice_length = inp.max_length
    /\ result.unsplit
    /\ warnings = {W_SPLICE_GE_LMAX}

--------------------------------------------------------------------------
(* Properties of the loops and of the coordination *)

Coordinating == pc \in {"coord", "coordinated"}

\* The splices registered before the last visit.
ExistingBefore == SubSeq(co.existing_splices, 1, Len(co.existing_splices) - 1)

\* C9: a relocated bottom splice lies within [0, beam_length], intersects
\* no prohibited zone, and its center is at least 1.2 times the longer of
\* the two lengths away from the center of every top splice and of every
\* bottom splice accepted before it; a 0.75 m bottom splice centered at
\* 5.1 m that conflicts with a 0.75 m top splice centered at 5.0 m ends at
\* least 0.9 m from 5.0 m.
C9_RelocatedSpliceClear ==
    (Coordinating /\ co.new_center.found) =>
        /\ 0 <= co.heap[co.joint].start
        /\ co.heap[co.joint].end <= co.beam_length
        /\ co.heap[co.joint].start < co.heap[co.joint].end
        /\ \A i \in 1..Len(co.prohibited_zones) :
              ~Intersects(co.heap[co.joint].start, co.heap[co.joint].end,
                          co.prohibited_zones[i])
        /\ \A i \in 1..Len(ExistingBefore) :
              10 * Abs(SpliceCenter(co.heap[co.joint]) - ExistingBefore[i].center)
                  >= 12 * Max2(co.heap[co.joint].length, ExistingBefore[i].length)
        /\ (co.original_center = 5100 * Tol /\ co.length = 75 * Cm
               /\ \E i \in 1..Len(ExistingBefore) :
                     ExistingBefore[i] = Existing(5 * Metre, 75 * Cm, "top"))
              => Abs(SpliceCenter(co.heap[co.joint]) - 5 * Metre) >= 90 * Cm

C9_Witness ==
    /\ Coordinating
    /\ co.new_center.found
    /\ co.heap[co.joint].adjusted
    /\ co.original_center = 5100 * Tol
    /\ co.length = 75 * Cm
    /\ co.prohibited_zones # <<>>
    /\ \E i \in 1..Len(ExistingBefore) :
          ExistingBefore[i] = Existing(5 * Metre, 75 * Cm, "top")
    /\ \E i \in 1..Len(ExistingBefore) : ExistingBefore[i].type = "bottom"

Far(c1, l1, c2, l2) == 2 * Abs(c1 - c2) >= 3 * Max2(l1, l2)

\* The joint of the segmented bottom bar with no top splice and no other
\* bottom joint within 1.5 times the longer length of its center.
Isolated(k) ==
    /\ SpliceLength(result.joints[k]) > 0
    /\ \A i \in 1..Len(co.existing_splices) :
          co.existing_splices[i].type = "top"
              => Far(SpliceCenter(result.joints[k]), SpliceLength(result.joints[k]),
                     co.existing_splices[i].center, co.existing_splices[i].length)
    /\ \A m \in 1..Len(result.joints) :
          m # k => /\ Far(SpliceCenter(result.joints[k]), SpliceLength(result.joints[k]),
                          SpliceCenter(result.joints[m]), SpliceLength(result.joints[m]))
                   /\ Far(SpliceCenter(result.joints[k]), SpliceLength(result.joints[k]),
                          SpliceCenter(co.heap[m]), SpliceLength(co.heap[m]))

\* C10: a bottom joint at least 1.5 times the longer length away from every
\* top splice center and from every other bottom joint leaves
\* _coordinate_splice_positions as it entered: same start, end and length,
\* no adjusted flag.
C10_IsolatedJointKept ==
    pc = "coordinated" =>
        \A k \in 1..Len(co.heap) :
            Isolated(k) => co.heap[k] = result.joints[k]

\* C11: when a bottom splice conflicts and the search finds no acceptable
\* center, the visit leaves every splice record as it was (start, end,
\* length, adjusted flag), logs the warning for the bar, goes on with the
\* loop, and registers the original center for the later splices.
C11_NoPositionKeepsSplice ==
    [][(/\ pc = "coord"
        /\ co.cursor <= Len(co.visits)
        /\ co'.cursor = co.cursor + 1
        /\ SpliceLength(co.heap[co.visits[co.cursor].joint]) > 0
        /\ co'.has_conflict
        /\ ~co'.new_center.found)
       => /\ co'.heap = co.heap
          /\ [bar |-> co.visits[co.cursor].bar,
              center |-> SpliceCenter(co.heap[co.visits[co.cursor].joint])]
                 \in co'.warnings
          /\ co'.existing_splices =
                 Append(co.existing_splices,
                        Existing(SpliceCenter(co.heap[co.visits[co.cursor].joint]),
                                 SpliceLength(co.heap[co.visits[co.cursor].joint]),
                                 "bottom"))
          /\ pc' = "coord"]_vars

C11_Witness ==
    /\ pc = "coord"
    /\ co.has_conflict
    /\ ~co.new_center.found
    /\ co.new_center.tests = 120
    /\ ~co.heap[co.joint].adjusted
    /\ co.heap[co.joint] = result.joints[co.joint]
    /\ [bar |-> co.visits[co.cursor - 1].bar, center |-> co.original_center] \in co.warnings
    /\ co.cursor <= Len(co.visits)
    /\ co.prohibited_zones # <<>>

\* C12: after _coordinate_splice_positions every splice record attached to
\* a bottom segment is the overlap interval of the two segments it joins
\* (joint k joins the segments k and k + 1 of the bar).
C12_SpliceIsSegmentOverlap ==
    pc = "coordinated" =>
        \A n \in 1..Len(co.visits) :
            /\ co.heap[co.visits[n].joint].start =
                   Max2(co.bottom_bars[co.visits[n].joint].start_m,
                        co.bottom_bars[co.visits[n].joint + 1].start_m)
            /\ co.heap[co.visits[n].joint].end =
                   Min2(co.bottom_bars[co.visits[n].joint].end_m,
                        co.bottom_bars[co.visits[n].joint + 1].end_m)

\* The could-not-avoid warning of joint k: logged for one of the two
\* segments that hold the record, with the center the record has.
Warned(k) ==
    \E w \in co.warnings :
        w.bar \in {k, k + 1} /\ w.center = SpliceCenter(co.heap[k])

TopSplices == SelectSeq(co.existing_splices, LAMBDA e : e.type = "top")

\* C20 as claimed: after the coordination every bottom splice without a
\* could-not-avoid warning has its center at least 1.5 times the longer
\* length away from the center of every top splice.
C20_NoTopConflictRemains ==
    pc = "coordinated" =>
        \A k \in 1..Len(co.heap) :
            ~Warned(k) =>
                \A i \in 1..Len(TopSplices) :
                    Far(SpliceCenter(co.heap[k]), SpliceLength(co.heap[k]),
                        TopSplices[i].center, TopSplices[i].length)

\* C20 as amended: after the coordination every bottom splice of positive
\* length without a could-not-avoid warning has its center at least 1.2
\* times the longer length away from the center of every top splice.
C20_TopSplicesKeptAtSearchDistance ==
    pc = "coordinated" =>
        \A k \in 1..Len(co.heap) :
            (SpliceLength(co.heap[k]) > 0 /\ ~Warned(k)) =>
                \A i \in 1..Len(TopSplices) :
                    10 * Abs(SpliceCenter(co.heap[k]) - TopSplices[i].center)
                        >= 12 * Max2(SpliceLength(co.heap[k]), TopSplices[i].length)

C20_Witness ==
    /\ pc = "coordinated"
    /\ co.warnings = {}
    /\ \E k \in 1..Len(co.heap) :
          /\ co.heap[k].adjusted
          /\ \E i \in 1..Len(TopSplices) :
                /\ ~Far(SpliceCenter(co.heap[k]), SpliceLength(co.heap[k]),
                        TopSplices[i].center, TopSplices[i].length)
                /\ 10 * Abs(SpliceCenter(co.heap[k]) - TopSplices[i].center)
                      >= 12 * Max2(SpliceLength(co.heap[k]), TopSplices[i].length)

\* The call of scenario B: top strategy, no zones, no hooks, bar [0, 14],
\* max_length 9, splice_length 0.9.
ScenarioB ==
    /\ ~inp.is_bottom_bar
    /\ inp.zones = <<>>
    /\ inp.hook_length = 0
    /\ inp.bar.start_m = 0
    /\ inp.bar.end_m = 14 * Metre
    /\ inp.max_length = 9 * Metre
    /\ inp.splice_length = 90 * Cm

\* C16: the bar of scenario B is split into exactly 2 segments whose union
\* is exactly [0, 14], joined by exactly one splice of length 0.9 m.
C16_ScenarioBTwoSegments ==
    (Done /\ ScenarioB) =>
        /\ ~result.unsplit
        /\ Len(result.segments) = 2
        /\ result.segments[1].start_m = 0
        /\ result.segments[2].start_m <= result.segments[1].end_m
        /\ result.segments[2].end_m = 14 * Metre
        /\ result.segments[1].end_m <= 14 * Metre
        /\ Len(result.joints) = 1
        /\ result.joints[1].end - result.joints[1].start = 90 * Cm
        /\ result.joints[1].length = 90 * Cm
        /\ result.segments[1].splices = <<1>>
        /\ result.segments[2].splices = <<1>>

C16_Witness ==
    /\ Done
    /\ ScenarioB
    /\ Len(result.segments) = 2
    /\ result.joints[1].start = 810 * Cm
    /\ result.joints[1].end = 9 * Metre
    /\ warnings = {}

\* C17 as claimed: the first segment of the bar of scenario B is shortened
\* to 0.6 x 9 = 5.4 m.
C17_ScenarioBFirstShortened ==
    (Done /\ ScenarioB) =>
        result.segments[1].end_m - result.segments[1].start_m = 540 * Cm

FirstLength == result.segments[1].end_m - result.segments[1].start_m

\* C17 as amended: in the top strategy the first piece is at most 60% of
\* max_length when the bar is longer than 1.8 x max_length, and without
\* zones and hooks it is exactly 60% of max_length then and max_length
\* otherwise; the first segment of the bar of scenario B, for which 14 does
\* not exceed 1.8 x 9 = 16.2, is 9 m long.
C17_FirstPieceRule ==
    (Split /\ ~inp.is_bottom_bar) =>
        /\ (10 * inp.bar.length_m > 18 * inp.max_length)
              => 10 * FirstLength <= 6 * inp.max_length
        /\ (inp.zones = <<>> /\ inp.hook_length = 0)
              => FirstLength = IF 10 * inp.bar.length_m > 18 * inp.max_length
                               THEN (6 * inp.max_length) \div 10
                               ELSE inp.max_length
        /\ ScenarioB => FirstLength = 9 * Metre

C17_Witness ==
    /\ Split
    /\ ~inp.is_bottom_bar
    /\ inp.zones = <<>>
    /\ inp.hook_length = 0
    /\ inp.bar.length_m = 14 * Metre
    /\ inp.max_length = 6 * Metre
    /\ FirstLength = 360 * Cm
    /\ Len(result.segments) >= 3

--------------------------------------------------------------------------
(* _rebuild_splices_from_geometry, segmentation.py lines 688-724 *)

\* A bar identifier is held as the sequence of its parts between "-S"
\* marks: <<"A", "2">> is "A-S2" and <<"A">> is "A".  rsplit("-S", 1)[0]
\* drops the last part when there is a mark.
BaseId(id) == IF Len(id) > 1 THEN SubSeq(id, 1, Len(id) - 1) ELSE id

\* The sort key (seg.start_m, seg.end_m) of line 700.
SegKeyLess(a, b) == \/ a.start_m < b.start_m
                    \/ a.start_m = b.start_m /\ a.end_m < b.end_m

\* list.sort is stable: an index goes before another when its key is smaller,
\* or the same and it comes earlier in the list.
GoesBefore(bars, j, i) ==
    \/ SegKeyLess(bars[j], bars[i])
    \/ (~SegKeyLess(bars[i], bars[j]) /\ j < i)

\* Line 700: the indices idxs, in increasing order, sorted by the key.
SortedIndices(bars, idxs) == SortSeq(idxs, LAMBDA j, i : GoesBefore(bars, j, i))

\* grouped[base_id]: the indices of the bars of one group, in list order.
RECURSIVE GroupIndices(_, _, _)
GroupIndices(bars, base_id, n) ==
    IF n = 0 THEN <<>>
    ELSE IF BaseId(bars[n].id) = base_id
         THEN Append(GroupIndices(bars, base_id, n - 1), n)
         ELSE GroupIndices(bars, base_id, n - 1)

\* The pair rule without the tolerance: every positive overlap is spliced.
SplicePayload_NoTolerance(current, following) ==
    LET overlap_start == Max2(current.start_m, following.start_m)
        overlap_end == Min2(current.end_m, following.end_m)
    IN  IF overlap_end - overlap_start <= 0 THEN <<>>
        ELSE <<[start |-> overlap_start, end |-> overlap_end,
                length |-> overlap_end - overlap_start,
                type |-> "lap_splice_class_b", position |-> current.position]>>

\* Lines 706-718: the payload of the pair (current, following), or none.
SplicePayload(current, following) ==
    LET overlap_start == Max2(current.start_m, following.start_m)
        overlap_end == Min2(current.end_m, following.end_m)
    IN  IF overlap_end - overlap_start <= Tol THEN <<>>
        ELSE <<[start |-> overlap_start, end |-> overlap_end,
                length |-> overlap_end - overlap_start,
                type |-> "lap_splice_class_b", position |-> current.position]>>

\* The splices of the bar at place p of its sorted group: None (held as the
\* empty list) after line 702, then the entry of the pair it closes and the
\* entry of the pair it opens, in the order of the loop of line 704.
RebuiltSplices(bars, order, p) ==
    (IF p > 1 THEN SplicePayload(bars[order[p - 1]], bars[order[p]]) ELSE <<>>)
    \o (IF p < Len(order) THEN SplicePayload(bars[order[p]], bars[order[p + 1]])
        ELSE <<>>)

\* The bars are changed in place; the list keeps its order.
_rebuild_splices_from_geometry(bars) ==
    [i \in 1..Len(bars) |->
        LET order == SortedIndices(bars, GroupIndices(bars, BaseId(bars[i].id), Len(bars)))
            place == CHOOSE p \in 1..Len(order) : order[p] = i
        IN  [bars[i] EXCEPT !.splices = RebuiltSplices(bars, order, place)]]

MaxBars == 3

RebuildIds == {<<"A">>, <<"A", "2">>, <<"B", "1">>}
RebuildSpans == {<<0, 4000500>>, <<0, 5 * Metre>>, <<4 * Metre, 9 * Metre>>,
                 <<5 * Metre, 9 * Metre>>}
StaleSplice == [start |-> 1 * Metre, end |-> 2 * Metre, length |-> 1 * Metre,
                type |-> "lap_splice_class_b", position |-> "top"]

RebarDetail(id, span, splices) ==
    [id |-> id, start_m |-> span[1], end_m |-> span[2],
     position |-> IF id[1] = "A" THEN "top" ELSE "bottom", splices |-> splices]

\* The caller's list: any bars in any order, with whatever splices they had.
AddBar ==
    /\ pc = "rebuild"
    /\ fn.phase = "args"
    /\ Len(fn.bars) < MaxBars
    /\ \E id \in RebuildIds, span \in RebuildSpans, sp \in {<<>>, <<StaleSplice>>} :
          fn' = [fn EXCEPT !.bars = Append(fn.bars, RebarDetail(id, span, sp))]
    /\ UNCHANGED <<pc, segVars, co, dr>>

RebuildSplicesFromGeometry ==
    /\ pc = "rebuild"
    /\ fn.phase = "args"
    /\ fn' = [phase |-> "returned", given |-> fn.bars,
              bars |-> _rebuild_splices_from_geometry(fn.bars)]
    /\ UNCHANGED <<pc, segVars, co, dr>>

--------------------------------------------------------------------------
(* ProyectoVigaNSR10, engine.py: lap length and lap locations.            *)
(* Diameters are tenths of a millimetre, lengths micrometres and the lap  *)
(* factor tenths, so d / 1000 metres is 100 * d and every product below   *)
(* is exact.                                                              *)

LONGITUD_MIN_TRASLAPO == 30
DISTANCIA_MIN_TRASLAPO == 150 * Cm

\* The lap factor without its table: 1.3 for every bar length.
FACTOR_TRASLAPO_Flat(longitud_barra) == 13

\* FACTOR_TRASLAPO.get(longitud_barra, 1.3), in tenths.
FACTOR_TRASLAPO(longitud_barra) ==
    CASE longitud_barra = 6 * Metre -> 13
      [] longitud_barra = 9 * Metre -> 14
      [] longitud_barra = 12 * Metre -> 15
      [] OTHER -> 13

LONGITUD_DESARROLLO(tipo_estructura) ==
    CASE tipo_estructura = "DES" -> 50
      [] tipo_estructura = "DMO" -> 40
      [] tipo_estructura = "DMI" -> 30

calcular_longitud_traslapo(diametro, tipo_estructura, longitud_barra) ==
    LET long_min == LONGITUD_MIN_TRASLAPO * diametro * 100
        factor == FACTOR_TRASLAPO(longitud_barra)
        long_desarrollo == LONGITUD_DESARROLLO(tipo_estructura) * diametro * 100
    IN  Max2(long_min, Max2((long_desarrollo * factor) \div 10, 30 * Cm))

\* The quotient rounded down.
Ceil_Floor(a, b) == a \div b

\* math.ceil(a / b) for positive b.
Ceil(a, b) == IF a % b = 0 THEN a \div b ELSE (a \div b) + 1

\* One pass of the loop of lines 151-164.
TraslapoPass(f) ==
    LET start == IF f.traslapos = <<>>
                 THEN f.longitud_barra - f.long_traslapo
                 ELSE f.traslapos[Len(f.traslapos)][2] + DISTANCIA_MIN_TRASLAPO
        stop == start + f.long_traslapo
        ajuste == IF stop > f.longitud_restante THEN stop - f.longitud_restante ELSE 0
    IN  [f EXCEPT !.traslapos = Append(@, <<start - ajuste, stop - ajuste>>),
                  !.longitud_restante = @ - (f.longitud_barra - f.long_traslapo)]

Diametros == {64, 95, 127, 200, 254}
LongitudesBarra == {6 * Metre, 9 * Metre, 12 * Metre, 7500000}
LongitudesTotales == {5 * Metre, 6 * Metre, 9 * Metre, 12175000, 24 * Metre,
                      30500000}

\* A direct call of calcular_longitud_traslapo.
CalcularLongitudTraslapo ==
    /\ pc = "traslapo"
    /\ fn.phase = "args"
    /\ fn' = [fn EXCEPT !.phase = "lap",
                        !.long_traslapo = calcular_longitud_traslapo(
                            fn.diametro, fn.tipo_estructura, fn.longitud_barra)]
    /\ UNCHANGED <<pc, segVars, co, dr>>

\* calcular_ubicacion_traslapos up to its loop, lines 143-149.
CalcularUbicacionTraslapos ==
    /\ pc = "traslapo"
    /\ fn.phase = "args"
    /\ IF fn.longitud_total <= fn.longitud_barra
       THEN fn' = [fn EXCEPT !.phase = "returned"]
       ELSE fn' = [fn EXCEPT !.phase = "loop",
                      !.long_traslapo = calcular_longitud_traslapo(
                          fn.diametro, fn.tipo_estructura, fn.longitud_barra),
                      !.num_traslapos = Ceil(fn.longitud_total, fn.longitud_barra) - 1,
                      !.longitud_restante = fn.longitud_total]
    /\ UNCHANGED <<pc, segVars, co, dr>>

UbicacionPass ==
    /\ pc = "traslapo"
    /\ fn.phase = "loop"
    /\ Len(fn.traslapos) < fn.num_traslapos
    /\ fn' = TraslapoPass(fn)
    /\ UNCHANGED <<pc, segVars, co, dr>>

UbicacionReturn ==
    /\ pc = "traslapo"
    /\ fn.phase = "loop"
    /\ Len(fn.traslapos) >= fn.num_traslapos
    /\ fn' = [fn EXCEPT !.phase = "returned"]
    /\ UNCHANGED <<pc, segVars, co, dr>>

--------------------------------------------------------------------------
(* RebarDrawer._draw_hooks, rebar_drawer.py lines 297-409.                *)
(* Hook lengths are micrometres; with the default scale factor of 1000    *)
(* the same number is the hook length in thousandths of a drawing unit.   *)

HookMarks == {"#2", "#3", "#4", "#5", "#6", "#7", "#8", "#9", "#10", "#11",
              "#14", "#18"}

\* The table of lines 391-404, None held as 0.
HookTable(mark, angle) ==
    CASE mark = "#2" -> (CASE angle = "90" -> 100000 [] angle = "180" -> 80000 [] angle = "135" -> 75000 [] OTHER -> 0)
      [] mark = "#3" -> (CASE angle = "90" -> 150000 [] angle = "180" -> 130000 [] angle = "135" -> 80000 [] OTHER -> 0)
      [] mark = "#4" -> (CASE angle = "90" -> 200000 [] angle = "180" -> 150000 [] angle = "135" -> 127000 [] OTHER -> 0)
      [] mark = "#5" -> (CASE angle = "90" -> 250000 [] angle = "180" -> 180000 [] angle = "135" -> 159000 [] OTHER -> 0)
      [] mark = "#6" -> (CASE angle = "90" -> 300000 [] angle = "180" -> 210000 [] angle = "135" -> 191000 [] OTHER -> 0)
      [] mark = "#7" -> (CASE angle = "90" -> 360000 [] angle = "180" -> 250000 [] angle = "135" -> 222000 [] OTHER -> 0)
      [] mark = "#8" -> (CASE angle = "90" -> 410000 [] angle = "180" -> 300000 [] angle = "135" -> 254000 [] OTHER -> 0)
      [] mark = "#9" -> (CASE angle = "90" -> 490000 [] angle = "180" -> 340000 [] OTHER -> 0)
      [] mark = "#10" -> (CASE angle = "90" -> 540000 [] angle = "180" -> 400000 [] OTHER -> 0)
      [] mark = "#11" -> (CASE angle = "90" -> 590000 [] angle = "180" -> 430000 [] OTHER -> 0)
      [] mark = "#14" -> (CASE angle = "90" -> 800000 [] angle = "180" -> 445000 [] OTHER -> 0)
      [] mark = "#18" -> (CASE angle = "90" -> 1030000 [] angle = "180" -> 572000 [] OTHER -> 0)
      [] OTHER -> 0

\* The hook type is looked up as given, not stripped.
_lookup_hook_length_m(bar) ==
    IF bar.diameter \notin HookMarks THEN 0 ELSE HookTable(bar.diameter, bar.hook_type)

_hook_length_mm(bar) ==
    LET length_m == _lookup_hook_length_m(bar)
    IN  IF length_m <= 0 THEN 0 ELSE length_m

\* (bar.hook_type or "").strip() for the hook types of HookTypes.
StripHookType(hook_type) == IF hook_type = " 135 " THEN "135" ELSE hook_type

\* The threshold is the 0.45 of _support_threshold_m for a geometry without
\* supports.
_is_near_support(coordinate_m, beam_length, position) ==
    LET threshold == 45 * Cm
    IN  IF position = "start" THEN coordinate_m <= threshold
        ELSE beam_length - coordinate_m <= threshold

\* _notes_force_hook for the notes "", "apoyo izq" and "apoyo der".
_notes_force_hook(bar, position) ==
    IF position = "start" THEN bar.notes = "apoyo izq" ELSE bar.notes = "apoyo der"

\* _hook_vector in hundredths.
_hook_vector(hook_type, orientation) ==
    CASE hook_type = "180" -> <<0 - orientation * 100, 0>>
      [] hook_type = "90" -> <<0, orientation * 100>>
      [] OTHER -> <<0 - orientation * 45, orientation * 85>>

\* Lines 331-370: the polyline runs from (origin_x, y) to (origin_x + dx,
\* y + dy) and the text shows the hook length in whole drawing units;
\* vertical_amplitude is min(vertical_clearance * 0.4, 80.0) at scale factor
\* 1, in thousandths.
HookEntities(hook_type, hook_length, origin_x, orientation, direction) ==
    LET vertical_amplitude ==
            Min2(((lane_spacing_mm - family_spacing_mm) * 4 * 1000) \div 10, 80000)
        vector == _hook_vector(hook_type, orientation)
        dx == (hook_length * vector[1]) \div 100
        dy == Max2(Min2((hook_length * vector[2] * direction) \div 100, vertical_amplitude),
                   0 - vertical_amplitude)
    IN  <<[kind |-> "polyline", origin_x |-> origin_x, dx |-> dx, dy |-> dy,
           content |-> 0],
          [kind |-> "text", origin_x |-> origin_x, dx |-> dx, dy |-> dy,
           content |-> hook_length \div 1000]>>

ShouldDraw(c, position) ==
    /\ IF position = "start" THEN c.draw_start ELSE c.draw_end
    /\ \/ _is_near_support(IF position = "start" THEN c.bar.start_m ELSE c.bar.end_m,
                           c.beam_length, position)
       \/ _notes_force_hook(c.bar, position)

\* The hooks drawn with every test of _draw_hooks but the one on the length.
_draw_hooks_NoLengthTest(c) ==
    LET hook_type == StripHookType(c.bar.hook_type)
        hook_length == _hook_length_mm(c.bar)
    IN  IF hook_type \notin {"90", "135", "180"} THEN <<>>
        ELSE IF ~ShouldDraw(c, "start") /\ ~ShouldDraw(c, "end") THEN <<>>
        ELSE (IF ShouldDraw(c, "start")
              THEN HookEntities(hook_type, hook_length, c.start_x, 1, c.direction)
              ELSE <<>>)
             \o (IF ShouldDraw(c, "end")
                 THEN HookEntities(hook_type, hook_length, c.end_x, -1, c.direction)
                 ELSE <<>>)

\* The entities that _draw_hooks adds to the document.
_draw_hooks(c) ==
    LET hook_type == StripHookType(c.bar.hook_type)
        hook_length == _hook_length_mm(c.bar)
    IN  IF hook_type \notin {"90", "135", "180"} THEN <<>>
        ELSE IF ~ShouldDraw(c, "start") /\ ~ShouldDraw(c, "end") THEN <<>>
        ELSE IF hook_length <= 0 THEN <<>>
        ELSE (IF ShouldDraw(c, "start")
              THEN HookEntities(hook_type, hook_length, c.start_x, 1, c.direction)
              ELSE <<>>)
             \o (IF ShouldDraw(c, "end")
                 THEN HookEntities(hook_type, hook_length, c.end_x, -1, c.direction)
                 ELSE <<>>)

HookDiameters == HookMarks \cup {"#13", ""}
HookTypes == {"90", "135", "180", " 135 ", "45", ""}

\* A direct call of _lookup_hook_length_m.
LookupHookLength ==
    /\ pc = "hooks"
    /\ fn.phase = "args"
    /\ fn' = [fn EXCEPT !.phase = "looked up",
                        !.length_m = _lookup_hook_length_m(fn.bar)]
    /\ UNCHANGED <<pc, segVars, co, dr>>

DrawHooks ==
    /\ pc = "hooks"
    /\ fn.phase = "args"
    /\ fn' = [fn EXCEPT !.phase = "drawn", !.entities = _draw_hooks(fn)]
    /\ UNCHANGED <<pc, segVars, co, dr>>


\* A call of one of the stand-alone functions with arguments of its own:
\* _rebuild_splices_from_geometry on a list that AddBar builds,
\* calcular_longitud_traslapo or calcular_ubicacion_traslapos, and
\* _lookup_hook_length_m or _draw_hooks on a bar of a 9 m beam.
InitCalls ==
    /\ inp = Args(Bar("T1", "top", 0, 0), 0, 0, <<>>, 0, FALSE, 0, FALSE)
    /\ segments = <<>>
    /\ joints = <<>>
    /\ current_start = 0
    /\ piece_index = 1
    /\ safety_counter = 0
    /\ adjust_attempts = 0
    /\ warnings = {}
    /\ result = NoResult
    /\ co = CoIdle
    /\ dr = DrIdle
    /\ \/ /\ pc = "rebuild"
          /\ fn = [phase |-> "args", bars |-> <<>>, given |-> <<>>]
       \/ /\ pc = "traslapo"
          /\ \E total \in LongitudesTotales, barra \in LongitudesBarra,
                d \in Diametros, tipo \in {"DES", "DMO", "DMI"} :
                fn = [phase |-> "args", longitud_total |-> total,
                      longitud_barra |-> barra, diametro |-> d,
                      tipo_estructura |-> tipo, long_traslapo |-> 0,
                      num_traslapos |-> 0, traslapos |-> <<>>,
                      longitud_restante |-> 0]
       \/ /\ pc = "hooks"
          /\ \E d \in HookDiameters, t \in HookTypes, s \in {0, 2 * Metre},
                e \in {7 * Metre, 9 * Metre}, n \in {"", "apoyo izq", "apoyo der"},
                ds \in BOOLEAN, de \in BOOLEAN, dir \in {1, -1} :
                fn = [phase |-> "args",
                      bar |-> [diameter |-> d, hook_type |-> t, start_m |-> s,
                               end_m |-> e, notes |-> n],
                      start_x |-> s, end_x |-> e, beam_length |-> 9 * Metre,
                      draw_start |-> ds, draw_end |-> de, direction |-> dir,
                      length_m |-> 0, entities |-> <<>>]

NextCalls ==
    \/ AddBar
    \/ RebuildSplicesFromGeometry
    \/ CalcularLongitudTraslapo
    \/ CalcularUbicacionTraslapos
    \/ UbicacionPass
    \/ UbicacionReturn
    \/ LookupHookLength
    \/ DrawHooks

SpecCalls == InitCalls /\ [][NextCalls]_vars

--------------------------------------------------------------------------
(* Properties of the stand-alone functions *)

\* In a group sorted by (start, end), bar j comes right after bar i; equal
\* keys keep the order of the list.
ComesBefore(bars, i, j) ==
    \/ SegKeyLess(bars[i], bars[j])
    \/ ~SegKeyLess(bars[j], bars[i]) /\ i < j

SameGroup(bars, i, j) == BaseId(bars[i].id) = BaseId(bars[j].id)

ConsecutivePair(bars, i, j) ==
    /\ i # j
    /\ SameGroup(bars, i, j)
    /\ ComesBefore(bars, i, j)
    /\ ~\E k \in 1..Len(bars) :
          /\ k # i /\ k # j /\ SameGroup(bars, i, k)
          /\ ComesBefore(bars, i, k) /\ ComesBefore(bars, k, j)

PairOverlap(a, b) == Min2(a.end_m, b.end_m) - Max2(a.start_m, b.start_m)

IsOverlapOf(s, a, b) ==
    /\ s.start = Max2(a.start_m, b.start_m)
    /\ s.end = Min2(a.end_m, b.end_m)

\* The splice records a bar must carry when pairs overlapping by more than
\* `least` are spliced: one per consecutive pair it belongs to.
ExpectedSplices(bars, i, least) ==
    {<<i, j>> : j \in {k \in 1..Len(bars) :
        /\ ConsecutivePair(bars, i, k) \/ ConsecutivePair(bars, k, i)
        /\ PairOverlap(bars[i], bars[k]) > least}}

CarriesExactly(bars, i, least) ==
    LET pairs == ExpectedSplices(bars, i, least)
    IN  /\ Len(bars[i].splices) = Cardinality(pairs)
        /\ \A pr \in pairs : \E n \in 1..Len(bars[i].splices) :
               IsOverlapOf(bars[i].splices[n], bars[pr[1]], bars[pr[2]])
        /\ \A n \in 1..Len(bars[i].splices) : \E pr \in pairs :
               IsOverlapOf(bars[i].splices[n], bars[pr[1]], bars[pr[2]])

\* C13 as stated: after _rebuild_splices_from_geometry a consecutive pair of
\* a group carries a splice exactly when its overlap is positive; the splice
\* is the overlap interval, it is on both bars, and no bar keeps any other
\* splice record.
C13_SpliceIffPositiveOverlap ==
    (pc = "rebuild" /\ fn.phase = "returned") =>
        \A i \in 1..Len(fn.bars) : CarriesExactly(fn.bars, i, 0)

\* C13: after _rebuild_splices_from_geometry a consecutive pair of a group
\* (sorted by start, then end) carries a splice exactly when its overlap
\* exceeds the 1 mm tolerance; the splice is the overlap interval, it is on
\* both bars, and no bar keeps any other splice record.
C13_SpliceIffOverlapAboveTolerance ==
    (pc = "rebuild" /\ fn.phase = "returned") =>
        /\ Len(fn.bars) = Len(fn.given)
        /\ \A i \in 1..Len(fn.bars) :
              /\ fn.bars[i].id = fn.given[i].id
              /\ fn.bars[i].start_m = fn.given[i].start_m
              /\ fn.bars[i].end_m = fn.given[i].end_m
              /\ CarriesExactly(fn.bars, i, Tol)

\* A rebuilt list with a spliced pair, a pair whose overlap is positive but
\* within the tolerance, and a stale record that had to go.
C13_Witness ==
    /\ pc = "rebuild"
    /\ fn.phase = "returned"
    /\ \E i, j \in 1..Len(fn.bars) :
          /\ ConsecutivePair(fn.bars, i, j)
          /\ PairOverlap(fn.bars[i], fn.bars[j]) > Tol
          /\ fn.bars[i].splices # <<>> /\ fn.bars[j].splices # <<>>
    /\ \E i, j \in 1..Len(fn.bars) :
          /\ ConsecutivePair(fn.bars, i, j)
          /\ PairOverlap(fn.bars[i], fn.bars[j]) > 0
          /\ PairOverlap(fn.bars[i], fn.bars[j]) <= Tol
    /\ \E i \in 1..Len(fn.given) : fn.given[i].splices = <<StaleSplice>>

\* C15: calcular_ubicacion_traslapos returns no splice when the total does
\* not exceed the bar length, and otherwise ceil(total/bar) - 1 splices each
\* as long as the lap length, the first being [bar - lap, bar]; for 12.175 m,
\* 12 m bars, 20 mm and DES it returns the one splice [10.5, 12.0], 1.5 m long.
C15_LapLocations ==
    (pc = "traslapo" /\ fn.phase = "returned") =>
        /\ fn.longitud_total <= fn.longitud_barra => fn.traslapos = <<>>
        /\ fn.longitud_total > fn.longitud_barra =>
              /\ \E k \in 1..8 :
                    /\ (k - 1) * fn.longitud_barra < fn.longitud_total
                    /\ fn.longitud_total <= k * fn.longitud_barra
                    /\ Len(fn.traslapos) = k - 1
              /\ \A n \in 1..Len(fn.traslapos) :
                    fn.traslapos[n][2] - fn.traslapos[n][1] = fn.long_traslapo
              /\ fn.long_traslapo = calcular_longitud_traslapo(
                    fn.diametro, fn.tipo_estructura, fn.longitud_barra)
              /\ fn.traslapos[1] = <<fn.longitud_barra - fn.long_traslapo, fn.longitud_barra>>
        /\ (/\ fn.longitud_total = 12175000 /\ fn.longitud_barra = 12 * Metre
            /\ fn.diametro = 200 /\ fn.tipo_estructura = "DES")
           => /\ fn.traslapos = <<<<10500000, 12 * Metre>>>>
              /\ fn.long_traslapo = 150 * Cm

C15_Witness ==
    /\ pc = "traslapo"
    /\ fn.phase = "returned"
    /\ fn.longitud_total = 12175000 /\ fn.longitud_barra = 12 * Metre
    /\ fn.diametro = 200 /\ fn.tipo_estructura = "DES"
    /\ Len(fn.traslapos) = 1

LapOf(tipo) == calcular_longitud_traslapo(fn.diametro, tipo, fn.longitud_barra)

\* C18: calcular_longitud_traslapo returns the greatest of 30 d / 1000,
\* base(class) d / 1000 x factor and 0.30 m, with base 50, 40, 30 for DES,
\* DMO, DMI and factor 1.3, 1.4, 1.5 for 6, 9, 12 m bars and 1.3 otherwise;
\* so it is never below 0.30 m and never smaller for DES than for DMO nor for
\* DMO than for DMI.
C18_LapLength ==
    (pc = "traslapo" /\ fn.phase = "lap") =>
        LET d == fn.diametro
            base == IF fn.tipo_estructura = "DES" THEN 50
                    ELSE IF fn.tipo_estructura = "DMO" THEN 40 ELSE 30
            tenths == IF fn.longitud_barra = 6 * Metre THEN 13
                      ELSE IF fn.longitud_barra = 9 * Metre THEN 14
                      ELSE IF fn.longitud_barra = 12 * Metre THEN 15 ELSE 13
            terms == {3000 * d, base * d * tenths * 10, 300000}
        IN  /\ fn.long_traslapo \in terms
            /\ \A t \in terms : fn.long_traslapo >= t
            /\ fn.long_traslapo >= 300000
            /\ LapOf("DES") >= LapOf("DMO")
            /\ LapOf("DMO") >= LapOf("DMI")

C18_Witness ==
    /\ pc = "traslapo"
    /\ fn.phase = "lap"
    /\ fn.longitud_barra = 7500000
    /\ fn.tipo_estructura = "DMI"
    /\ fn.diametro = 64
    /\ fn.long_traslapo = 300000

\* C19: _lookup_hook_length_m gives 0.080 m for #3 with a 135 degree hook,
\* and 0 for a 135 degree hook on #9, #10, #11, #14 and #18 and for every
\* mark or angle that is not in the table; whenever it gives 0, _draw_hooks
\* adds no hook polyline and no hook text.
C19_HookLookup ==
    /\ (pc = "hooks" /\ fn.phase = "looked up") =>
          /\ (fn.bar.diameter = "#3" /\ fn.bar.hook_type = "135") => fn.length_m = 80000
          /\ (fn.bar.diameter \in {"#9", "#10", "#11", "#14", "#18"}
              /\ fn.bar.hook_type = "135") => fn.length_m = 0
          /\ fn.bar.diameter \notin HookMarks => fn.length_m = 0
          /\ fn.bar.hook_type \notin {"90", "135", "180"} => fn.length_m = 0
    /\ (pc = "hooks" /\ fn.phase = "drawn") =>
          (_lookup_hook_length_m(fn.bar) = 0 => fn.entities = <<>>)

\* A #9 bar with a 135 degree hook at a support, where a hook was asked for.
C19_Witness ==
    /\ pc = "hooks"
    /\ fn.phase = "drawn"
    /\ fn.bar.diameter = "#9" /\ fn.bar.hook_type = "135"
    /\ fn.draw_start /\ fn.bar.start_m = 0
    /\ fn.entities = <<>>

--------------------------------------------------------------------------
(* Properties of the first joint of the bottom strategy *)

\* The first pass of a bottom call up to the scan: the candidate after the
\* corridor step, and the position the scan returns for it.
FirstCandidate(a) ==
    BottomCorridor(a, LoopStart(a),
                   BottomCandidate(a, LoopStart(a), PassBudget(a, LoopStart(a))))

FirstScan(a) ==
    _find_safe_splice_position(a.bar.start_m + a.splice_length,
                               FirstCandidate(a).candidate_end, a.splice_length, a.zones)

\* The first joint is relocated to the position of the scan.
ScanRelocates(a) ==
    /\ a.is_bottom_bar
    /\ SkipReason(a) = "none"
    /\ ~FirstCandidate(a).is_last_segment
    /\ FirstCandidate(a).needs_zone_adjustment
    /\ _overlaps_prohibited_zone(
           Max2(a.bar.start_m, FirstCandidate(a).candidate_end - a.splice_length),
           FirstCandidate(a).candidate_end, a.zones)
    /\ FirstScan(a).found

\* C21: in the bottom strategy, when the first joint is relocated to the
\* position returned by _find_safe_splice_position, the joint interval
\* [segment_end - splice_length, segment_end] of the first segment
\* intersects no prohibited zone.
C21_ScannedJointClear ==
    (Split /\ ScanRelocates(inp) /\ Len(result.joints) >= 1)
        => /\ result.joints[1].end = FirstScan(inp).value
           /\ ~JointInZone(result.joints[1])

\* The corridor step of the first pass of a bottom call: the before-zone,
\* the end of the zone that precedes it, and the target it returns.
FirstBeforeZone(a) == _find_next_before_zone(a.bar.start_m, a.zones).zone

FirstPrevEnd(a) == _find_zone_end_before(FirstBeforeZone(a).start_m, a.zones).value

FirstCorridorTarget(a) ==
    _target_bottom_corridor_end(a.bar.start_m,
        BottomCandidate(a, LoopStart(a), PassBudget(a, LoopStart(a))).candidate_end,
        a.splice_length, a.zones)

CorridorTaken(a) ==
    /\ a.is_bottom_bar
    /\ SkipReason(a) = "none"
    /\ ~BottomCandidate(a, LoopStart(a), PassBudget(a, LoopStart(a))).is_last_segment
    /\ FirstCorridorTarget(a).found

\* C22: in the bottom strategy, whenever _target_bottom_corridor_end returns
\* a target for the first joint, the gap between the end of the preceding
\* zone and the start of the before-zone is at least one splice length and
\* the joint [target - splice_length, target] lies inside that gap, touching
\* neither zone.
C22_CorridorJointInGap ==
    (Split /\ CorridorTaken(inp) /\ Len(result.joints) >= 1)
        => /\ result.joints[1].end = FirstCorridorTarget(inp).value
           /\ FirstBeforeZone(inp).start_m - FirstPrevEnd(inp) >= inp.splice_length
           /\ FirstPrevEnd(inp) <= result.joints[1].start
           /\ result.joints[1].end <= FirstBeforeZone(inp).start_m
           /\ ~JointInZone(result.joints[1])

\* C23 as stated: with ratio = splice_offset_ratio clamped to [0, 0.6], the
\* first-segment target of the bottom strategy is
\* min(max(min(total x (0.4 + ratio x 0.5), cap), 1.5 x splice), total) with
\* cap 0.8 x max_length when ratio is about 0 and max_length otherwise, and
\* the first segment is never longer than the target.
C23_TargetFormula ==
    (Split /\ inp.is_bottom_bar) =>
        LET total == inp.bar.end_m - inp.bar.start_m
            ratio == Max2(0, Min2(inp.splice_offset_ratio, 600))
            cap == IF ratio <= RatioTol THEN (8 * inp.max_length) \div 10 ELSE inp.max_length
            target == Min2(Max2(Min2(4 * (total \div 10) + ratio * (total \div 2000), cap),
                                (15 * inp.splice_length) \div 10), total)
        IN  /\ FirstSegmentTarget(inp) = target
            /\ FirstLength <= target + Tol

\* C23: the first-segment target of the bottom strategy is
\* min(max(base, 1.5 x splice), total), where base is
\* min(total x (0.4 + ratio x 0.5), max_length) when the clamped ratio
\* exceeds 0.001 and min(total x 0.45, 0.8 x max_length) otherwise, and the
\* first segment is never longer than the target (within the tolerance).
C23_TargetWithDefaultBranch ==
    (Split /\ inp.is_bottom_bar) =>
        LET total == inp.bar.end_m - inp.bar.start_m
            ratio == Max2(0, Min2(inp.splice_offset_ratio, 600))
            base == IF ratio <= RatioTol
                    THEN Min2(45 * (total \div 100), (8 * inp.max_length) \div 10)
                    ELSE Min2(4 * (total \div 10) + ratio * (total \div 2000), inp.max_length)
            target == Min2(Max2(base, (15 * inp.splice_length) \div 10), total)
        IN  /\ FirstSegmentTarget(inp) = target
            /\ FirstLength <= target + Tol

\* A bar of 14 m with ratio 0 whose first segment is 0.45 x 14 = 6.3 m.
C23_Witness ==
    /\ Split
    /\ inp.is_bottom_bar
    /\ inp.splice_offset_ratio = 0
    /\ inp.bar.end_m - inp.bar.start_m = 14 * Metre
    /\ FirstSegmentTarget(inp) = 630 * Cm
    /\ FirstLength = 630 * Cm

--------------------------------------------------------------------------
(* Properties of the returned list *)

\* C24: a returned list of n >= 2 segments has exactly n - 1 joints; the
\* first and the last segment carry one splice, every other segment two, and
\* every splice of a segment is the joint it shares with the segment just
\* before or just after it, on every exit path of the loop.
C24_JointsBetweenNeighbours ==
    (Split /\ Len(result.segments) >= 2) =>
        LET n == Len(result.segments)
        IN  /\ Len(result.joints) = n - 1
            /\ \A i \in 1..n :
                  /\ Len(result.segments[i].splices) = IF i = 1 \/ i = n THEN 1 ELSE 2
                  /\ \A k \in 1..Len(result.segments[i].splices) :
                        /\ result.segments[i].splices[k] \in {i - 1, i}
                        /\ result.segments[i].splices[k] \in 1..(n - 1)

LastSegment == result.segments[Len(result.segments)]

\* C25: for a split bar with hook_length > 0 and without the warning that
\* the hooks consume the maximum length, the first segment of a bar that
\* starts within the cover, and the last segment of a bar that ends within
\* the cover, is at most max_length - hook_length long (within 1e-3).
C25_HookSegmentFits ==
    (Split /\ inp.hook_length > 0 /\ W_HOOKS \notin result.warnings) =>
        LET cover == Max2(inp.min_edge_cover_m, inp.edge_cover)
        IN  /\ inp.bar.start_m <= cover =>
                  FirstLength <= inp.max_length - inp.hook_length + Tol
            /\ inp.bar.end_m >= inp.beam_length - cover =>
                  LastSegment.end_m - LastSegment.start_m
                      <= inp.max_length - inp.hook_length + Tol

\* A bar with both hooks, split in three or more: a middle segment is longer
\* than the hook would allow, the first and the last are not.
C25_Witness ==
    /\ Split
    /\ inp.hook_length = 30 * Cm
    /\ W_HOOKS \notin result.warnings
    /\ inp.bar.start_m = 0
    /\ inp.bar.end_m = inp.beam_length
    /\ Len(result.segments) >= 3
    /\ result.segments[2].end_m - result.segments[2].start_m
           > inp.max_length - inp.hook_length
    /\ FirstLength <= inp.max_length - inp.hook_length
    /\ LastSegment.end_m - LastSegment.start_m <= inp.max_length - inp.hook_length

\* C26: a segment produced by splitting carries the hook type of the bar
\* only if its start is bar.start_m or its end is bar.end_m; a segment
\* bounded by splices on both sides carries no hook type.
C26_HookTypeAtPhysicalEnds ==
    Split => \A i \in 1..Len(result.segments) :
                 result.segments[i].hook_type = inp.bar.hook_type
                     => \/ result.segments[i].start_m = inp.bar.start_m
                        \/ result.segments[i].end_m = inp.bar.end_m

--------------------------------------------------------------------------
(* Properties of the lap locations *)

Located == pc = "traslapo" /\ fn.phase = "returned" /\ fn.longitud_total > fn.longitud_barra

\* C27: for a total length greater than the bar length, the pieces that the
\* returned splices cut (bar start to first splice end, each splice start to
\* the next splice end, last splice start to the total length) are none
\* longer than the commercial bar length.
C27_PiecesWithinBar ==
    Located =>
        LET t == fn.traslapos
            n == Len(t)
        IN  /\ t[1][2] <= fn.longitud_barra
            /\ \A k \in 1..(n - 1) : t[k + 1][2] - t[k][1] <= fn.longitud_barra
            /\ fn.longitud_total - t[n][1] <= fn.longitud_barra

\* C28: the returned splices are in strictly increasing position and each
\* splice after the first starts at least DISTANCIA_MIN_TRASLAPO after the
\* end of the one before it, so no two of them overlap.
C28_SplicesApart ==
    Located =>
        \A k \in 1..(Len(fn.traslapos) - 1) :
            /\ fn.traslapos[k][1] < fn.traslapos[k + 1][1]
            /\ fn.traslapos[k + 1][1] >= fn.traslapos[k][2] + 150 * Cm

(***************************************************************************)
(* Properties of the number of lanes                                       *)
(***************************************************************************)

\* The lanes _assign_lanes opens: the indices run from 0 without a hole.
LanesOpened == SetMax({dr.assignments[k] : k \in DOMAIN dr.assignments}) + 1

\* The groups of S share a stretch of x longer than the tolerance.
OverlapTogether(S) ==
    SetMin({dr.groups[i].end_x : i \in S}) - SetMax({dr.groups[i].start_x : i \in S}) > LaneTol

\* The largest number of groups that overlap one another at a common point.
LargestOverlap ==
    SetMax({Cardinality(S) : S \in {T \in SUBSET (1..Len(dr.groups)) :
                                       Cardinality(T) = 1 \/ (T # {} /\ OverlapTogether(T))}})

LongerThanTolerance == \A i \in 1..Len(dr.groups) : dr.groups[i].end_x - dr.groups[i].start_x > LaneTol

\* C29 as stated: the number of lanes _assign_lanes opens is the largest
\* number of groups that overlap one another by more than the tolerance at
\* a common point, for any list of groups.
C29_LanesEqualLargestOverlap ==
    dr.phase = "lanes" => LanesOpened = LargestOverlap

\* C29 amended: when every group is longer than the tolerance, the number
\* of lanes _assign_lanes opens is the largest number of groups that overlap
\* one another by more than the tolerance at a common point.
C29_LanesEqualLargestOverlapOfLongGroups ==
    (dr.phase = "lanes" /\ LongerThanTolerance) => LanesOpened = LargestOverlap

C29_Witness ==
    /\ dr.phase = "lanes"
    /\ LongerThanTolerance
    /\ Len(dr.groups) = 4
    /\ LanesOpened = 2
    /\ LargestOverlap = 2
    /\ \E i, j \in 1..Len(dr.groups) : i < j /\ XOverlap(dr.groups[i], dr.groups[j]) = LaneTol

(***************************************************************************)
(* Properties of the rebuild applied to the segments of one call           *)
(***************************************************************************)

\* The segments a strategy returned, as the bars _rebuild_splices_from_geometry
\* reads: the id is the bar's id followed by the piece, and the splices are
\* the joints lines 198-203 and 397-402 attached.
ReturnedBars ==
    [i \in 1..Len(result.segments) |->
        [id |-> <<result.segments[i].bar, result.segments[i].piece>>,
         start_m |-> result.segments[i].start_m,
         end_m |-> result.segments[i].end_m,
         position |-> result.segments[i].position,
         splices |-> [k \in 1..Len(result.segments[i].splices) |->
                         result.joints[result.segments[i].splices[k]]]]]

SameSplice(s, t) ==
    /\ s.start = t.start
    /\ s.end = t.end
    /\ s.length = t.length
    /\ s.position = t.position

SameSplices(before, after) ==
    /\ Len(before) = Len(after)
    /\ \A k \in 1..Len(before) : SameSplice(before[k], after[k])

Returned == pc = "done" /\ ~result.unsplit /\ result.segments # <<>>

\* C30: _rebuild_splices_from_geometry applied to the segments a strategy
\* has just returned leaves every segment with as many splices as it had,
\* each with the start, end, length and position it had.
C30_RebuildKeepsSplices ==
    Returned =>
        LET rebuilt == _rebuild_splices_from_geometry(ReturnedBars)
        IN  \A i \in 1..Len(ReturnedBars) :
                SameSplices(ReturnedBars[i].splices, rebuilt[i].splices)

\* C30 on the calls that did not reach the pass limit.
C30_RebuildKeepsSplicesBelowLimit ==
    (Returned /\ W_LIMIT \notin result.warnings) =>
        LET rebuilt == _rebuild_splices_from_geometry(ReturnedBars)
        IN  \A i \in 1..Len(ReturnedBars) :
                SameSplices(ReturnedBars[i].splices, rebuilt[i].splices)

====
